---- MODULE Spec2Model ----
(***************************************************************************)
(* Model of the E_Programmer web client: the JSON-RPC call correlation     *)
(* layer (ws_manager.js) and the block transfer protocol (programmer.js)   *)
(* that reads and writes an SPI flash image block by block.                *)
(***************************************************************************)
EXTENDS Integers, Sequences, FiniteSets, TLC

\* ------------------------------------------------------------------ bounds

\* Longest file buffer handed to writeChipBlocks.
MaxFileLen == 2

\* Number of failures (lost or late answers, error answers, corrupted
\* answers, connection errors, connection closes) injected in one run.
MaxFaults == 3

\* Failures injected in one flash-then-dump run of SpecHonest.
MaxFaultsHonest == 1

\* Faults injected into a transfer that is run to its end.
MaxFaultsLive == 1

\* Longest byte string the checksum/base64 helpers are applied to in SpecPure.
MaxLen == 3

\* Calls started by clicks in one run of the channel manager (detect: one
\* call, erase: two calls).
MaxTasks == 2

\* Socket failures and unanswered requests in one run of the channel manager.
MaxChanFaults == 1

\* Attempts of programmer_write_block whose outcome the device decides in one
\* run of SpecVerify.
MaxOutcomes == 4

\* --------------------------------------------------------- program constants

\* attempts < 3 in the retry loops of readChipBlocks and writeChipBlocks
MaxAttempts == 3

\* receiveBuffer.length > 64
BufferCap == 64

\* % 256 in both checksum computations
CrcMod == 256

\* while (Date.now() - startTime < 40000)
TimeoutMs == 40000

\* setTimeout(resolve, 100) between two polls
PollMs == 100

\* ------------------------------------------------------------- input domains

\* Byte values of file buffers (1 + 255 wraps around modulo 256).
FileBytes == {1, 255}

\* Byte values of the strings the pure helpers are applied to.
PureBytes == {0, 1, 128, 255}

\* Block sizes a device may report for reads and writes.
DeviceProfiles == { [read |-> 2, write |-> 1], [read |-> 4, write |-> 2] }

\* webserver/knows_chips.json, scaled down: one known part.
Catalog == { [model |-> "W25Q32", capacity |-> 4, page_size |-> 256] }

\* Chip names the caller may pass (one is not in the catalog).
ChipNames == {"W25Q32", "NOCHIP"}

RECURSIVE SeqsUpTo(_, _)
SeqsUpTo(S, n) ==
  IF n = 0 THEN { <<>> }
  ELSE LET shorter == SeqsUpTo(S, n - 1)
       IN shorter \cup { Append(s, x) : s \in { t \in shorter : Len(t) = n - 1 }, x \in S }

\* ------------------------------------------------------------ byte helpers

\* Array.prototype.reduce((a, b) => a + b, 0)
RECURSIVE reduceSum(_, _)
reduceSum(arr, acc) ==
  IF arr = <<>> THEN acc ELSE reduceSum(Tail(arr), acc + Head(arr))

\* TypedArray.prototype.slice(start, end) with 0 <= start, end clamped to length.
slice(arr, start, end) ==
  LET e == IF end > Len(arr) THEN Len(arr) ELSE end
  IN IF start >= e THEN <<>> ELSE SubSeq(arr, start + 1, e)

\* blockData.slice(0, -1)
sliceDropLast(arr) ==
  IF Len(arr) = 0 THEN <<>> ELSE SubSeq(arr, 1, Len(arr) - 1)

\* Mutant: the checksum is not reduced modulo 256.
writeCrcNoMod(blockData) == reduceSum(blockData, 0)

\* writeChipBlocks: const crc = blockData.reduce((a, b) => a + b, 0) % 256
writeCrc(blockData) == reduceSum(blockData, 0) % CrcMod

\* Mutant: the sum runs over the whole array, checksum byte included.
readSumAll(blockData) == reduceSum(blockData, 0) % CrcMod

\* readChipBlocks: const sum = blockData.slice(0, -1).reduce(...) % 256
readSum(blockData) == reduceSum(sliceDropLast(blockData), 0) % CrcMod

\* readChipBlocks: crc === sum, with crc = blockData[blockData.length - 1]
\* (undefined for an empty array, which is never === a number).
crcValid(blockData) ==
  /\ Len(blockData) > 0
  /\ blockData[Len(blockData)] = readSum(blockData)

\* readChipBlocks: valid flag after one decoded response.
readValid(blockData, appendCrc) ==
  IF appendCrc THEN crcValid(blockData) ELSE TRUE

\* Mutant: the checksum byte is yielded with the data.
readYieldKeepCrc(blockData, appendCrc) == blockData

\* readChipBlocks: yield append_crc ? blockData.slice(0, -1) : blockData
readYield(blockData, appendCrc) ==
  IF appendCrc THEN sliceDropLast(blockData) ELSE blockData

\* ------------------------------------------------------------------ base64
\* A base64 string is a sequence of symbols: 0..63 for the alphabet, Pad for '='.

Pad == 64

b64Group(g) ==
  LET b1 == g[1]
      b2 == IF Len(g) >= 2 THEN g[2] ELSE 0
      b3 == IF Len(g) >= 3 THEN g[3] ELSE 0
      n  == b1 * 65536 + b2 * 256 + b3
      s1 == n \div 262144
      s2 == (n \div 4096) % 64
      s3 == (n \div 64) % 64
      s4 == n % 64
  IN IF Len(g) >= 3 THEN <<s1, s2, s3, s4>>
     ELSE IF Len(g) = 2 THEN <<s1, s2, s3, Pad>>
     ELSE <<s1, s2, Pad, Pad>>

RECURSIVE btoa(_)
btoa(bin) ==
  IF Len(bin) = 0 THEN <<>>
  ELSE IF Len(bin) <= 3 THEN b64Group(bin)
  ELSE b64Group(SubSeq(bin, 1, 3)) \o btoa(SubSeq(bin, 4, Len(bin)))

\* uint8ArrayToBase64: String.fromCharCode of every byte, then btoa.
uint8ArrayToBase64(uint8Array) == btoa(uint8Array)

\* atob first removes the padding of a string whose length is a multiple of 4.
stripPad(s) ==
  IF Len(s) > 0 /\ Len(s) % 4 = 0 /\ s[Len(s)] = Pad
  THEN IF s[Len(s) - 1] = Pad THEN SubSeq(s, 1, Len(s) - 2)
       ELSE SubSeq(s, 1, Len(s) - 1)
  ELSE s

\* atob throws InvalidCharacterError on these strings.
atobThrows(s) ==
  LET t == stripPad(s)
  IN \/ Len(t) % 4 = 1
     \/ \E k \in 1..Len(t) : t[k] = Pad

unGroup(g) ==
  LET s3 == IF Len(g) >= 3 THEN g[3] ELSE 0
      s4 == IF Len(g) >= 4 THEN g[4] ELSE 0
      n  == g[1] * 262144 + g[2] * 4096 + s3 * 64 + s4
      b1 == n \div 65536
      b2 == (n \div 256) % 256
      b3 == n % 256
  IN IF Len(g) >= 4 THEN <<b1, b2, b3>>
     ELSE IF Len(g) = 3 THEN <<b1, b2>>
     ELSE <<b1>>

RECURSIVE atobBits(_)
atobBits(t) ==
  IF Len(t) = 0 THEN <<>>
  ELSE IF Len(t) <= 4 THEN unGroup(t)
  ELSE unGroup(SubSeq(t, 1, 4)) \o atobBits(SubSeq(t, 5, Len(t)))

atob(s) == atobBits(stripPad(s))

\* base64ToUint8Array: atob, then charCodeAt of every character.
base64ToUint8Array(base64Str) == atob(base64Str)


\* ---------------------------------------------------------- envelope codec

\* JavaScript null and undefined (void 0) where a number is expected.
Null == -1
Undefined == -2

\* A parsed JSON object: members jsonrpc, id, method, result, error.
\* "absent" and Undefined stand for a member the object does not have;
\* method is "absent", "nonstring" (a number, an object, ...) or the string;
\* error is "absent", "falsy" (null, 0, "", false) or "object".
JsonObject(jsonrpc, id, method, hasResult, result, error) ==
  [jsonrpc |-> jsonrpc, id |-> id, method |-> method, hasResult |-> hasResult,
   result |-> result, error |-> error]

\* An object with none of the five members.
EmptyObject == JsonObject("absent", Undefined, "absent", FALSE, Undefined, "absent")

\* requestObject: { jsonrpc : '2.0', id : id, method : method }
requestObject(id, method) ==
  JsonObject("2.0", id, method, FALSE, Undefined, "absent")

\* notificationObject: { jsonrpc : '2.0', method : method }
notificationObject(method) ==
  JsonObject("2.0", Undefined, method, FALSE, Undefined, "absent")

\* successObject: { jsonrpc : '2.0', id : id, result : result }
successObject(id, result) ==
  JsonObject("2.0", id, "absent", TRUE, result, "absent")

\* errorObject: { jsonrpc : '2.0', id : id, error : errdata }
errorObject(id, errdata) ==
  JsonObject("2.0", id, "absent", FALSE, Undefined, errdata)

\* JSON.stringify followed by JSON.parse: members whose value is undefined
\* are not written.
viaJson(obj) ==
  [obj EXCEPT !.hasResult = obj.hasResult /\ obj.result # Undefined]

\* What the 'message' listener stores: type, payload.id, payload.result.
\* ParseError and InvalidRequestError objects have no type and no payload.
Envelope(type, id, result) == [type |-> type, id |-> id, num |-> result, str |-> <<>>]

\* isString(obj.method)
methodIsString(obj) == obj.method \notin {"absent", "nonstring"}

\* Mutant: the version tag is not looked at.
deserializeObjectAnyVersion(obj) ==
  IF obj.id = Undefined
  THEN Envelope("notification", Undefined, Undefined)
  ELSE IF methodIsString(obj)
  THEN Envelope("request", obj.id, Undefined)
  ELSE IF obj.hasResult
  THEN Envelope("success", obj.id, obj.result)
  ELSE IF obj.error = "object"
  THEN Envelope("error", obj.id, Undefined)
  ELSE Envelope("InvalidRequestError", Undefined, Undefined)

\* jsonrpc.deserializeObject
deserializeObject(obj) ==
  IF obj.jsonrpc # "2.0"
  THEN Envelope("InvalidRequestError", Undefined, Undefined)
  ELSE IF obj.id = Undefined
  THEN Envelope("notification", Undefined, Undefined)
  ELSE IF methodIsString(obj)
  THEN Envelope("request", obj.id, Undefined)
  ELSE IF obj.hasResult
  THEN Envelope("success", obj.id, obj.result)
  ELSE IF obj.error = "object"
  THEN Envelope("error", obj.id, Undefined)
  ELSE Envelope("InvalidRequestError", Undefined, Undefined)

\* A message text: "malformed" (JSON.parse throws), the JSON text null,
\* a JSON number, string, boolean or array ("scalar"), or an object.
Text(kind, obj) == [kind |-> kind, obj |-> obj]

TextOf(obj) == Text("object", viaJson(obj))

\* jsonrpc.deserialize throws a TypeError when JSON.parse returns null
\* (deserializeObject reads obj.jsonrpc).
deserializeThrows(msg) == msg.kind = "null"

\* jsonrpc.deserialize
deserialize(msg) ==
  IF msg.kind = "malformed"
  THEN Envelope("ParseError", Undefined, Undefined)
  ELSE IF msg.kind = "scalar"
  THEN deserializeObject(EmptyObject)
  ELSE deserializeObject(msg.obj)

\* ------------------------------------------------------------------- state

VARIABLES
  ws,             \* ws / ws.readyState: "null", "connecting", "open", "closed"
  rpcId,          \* let rpcId = 0
  receiveBuffer,  \* export const receiveBuffer = []
  wire,           \* requests the device has received and not answered yet
  flash,          \* device memory: block id -> stored bytes
  devRead,        \* block size the device reports for reads
  devWrite,       \* block size the device reports for writes
  honest,         \* TRUE: the device never corrupts or truncates a block
  faults,         \* failures injected so far
  budget,         \* failures that may be injected in this run
  sent,           \* every request handed to ws.send, in order
  resolved,       \* call ids whose getRPCResponse has returned or thrown
  fails,          \* causes of the failed attempts of the current block, in order
  stage,          \* caller: "click" (one flash or one dump), "w" (flash and,
                  \* once it completed, dump), "r" (dump), "end"
  status,         \* per transfer: "none", "running", "done", "failed"
  error,          \* per transfer: the error it was rejected with
  yieldedW,       \* block ids yielded by writeChipBlocks
  yieldedR,       \* blocks yielded by readChipBlocks
  op,             \* running generator: "none", "write", "read"
  pc,             \* "idle", "connecting" (await connectToWS), "wait" (getRPCResponse)
  phase,          \* "size" (block size query) or "block" (block loop)
  chipName,
  append_crc,
  fileData,
  BLOCK_SIZE,     \* block size returned by the size query
  pageSize,
  i,              \* loop index (i in readChipBlocks, blockId in writeChipBlocks)
  attempts,
  blockData,      \* readChipBlocks: last decoded response of the current block
  awaitId,        \* id passed to getRPCResponse
  pure,           \* SpecPure only: one application of the checksum helpers
  sockets,        \* readyState of every WebSocket created so far; ws is the last one
  tasks,          \* pending promises: one RPCCall + getRPCResponse chain each
  progress,       \* erase handler: progressBar.style.width in percent
  script,         \* SpecPoll only: the texts the server sends, in order
  delivered,      \* SpecPoll only: how many of them the 'message' listener has seen
  codec,          \* SpecCodec only: one application of the envelope codec
  replay,         \* SpecVerify only: writeChipBlocks run against one device
  cache           \* SpecCache only: cachedChips and the getChipsData calls made
                  \* behaviour with verify set and with verify not set

chanVars == <<ws, rpcId, receiveBuffer>>
devVars == <<wire, flash, devRead, devWrite, honest>>
callerVars == <<stage, status, error, yieldedW, yieldedR>>
xferVars == <<op, pc, phase, chipName, append_crc, fileData, BLOCK_SIZE,
              pageSize, i, attempts, blockData, awaitId>>
mgrVars == <<sockets, tasks, progress, script, delivered, codec, replay, cache>>
vars == <<chanVars, devVars, faults, budget, sent, resolved, fails, callerVars, xferVars, pure, mgrVars>>

NoError == [kind |-> "none", block |-> -1]

CodecIdle == [step |-> "off"]

ReplayIdle == [step |-> "off"]

\* The value null of cachedChips.
NullChips == [fetch |-> 0, parts |-> "null"]

\* let cachedChips = null; no getChipsData call made.
CacheIdle == [cachedChips |-> NullChips, fetches |-> 0, calls |-> <<>>]

PureIdle == [step |-> "off", payload |-> <<>>, crc |-> 0, frame |-> <<>>,
             accepted |-> FALSE, out |-> <<>>]

\* --------------------------------------------------------------- requests

\* RPCCall("get_read_block_size" / "get_write_block_size", {})
SizeReq(method) ==
  [method |-> method, block_id |-> -1, append_crc |-> FALSE,
   chip_page_size |-> -1, data |-> <<>>, crc |-> -1]

\* RPCCall("programmer_read_block", { block_id: i, append_crc: append_crc })
ReadBlockReq(blk, appendCrc) ==
  [method |-> "programmer_read_block", block_id |-> blk, append_crc |-> appendCrc,
   chip_page_size |-> -1, data |-> <<>>, crc |-> -1]

\* fileData.slice(blockId * BLOCK_SIZE, blockId * BLOCK_SIZE + BLOCK_SIZE)
fileBlock(data, blockId, bs) == slice(data, blockId * bs, blockId * bs + bs)

\* Mutant: the checksum is taken over the whole file instead of the block.
WriteBlockReqCrcOfFile(blockId, bs, page) ==
  LET blk == fileBlock(fileData, blockId, bs)
  IN [method |-> "programmer_write_block", block_id |-> blockId,
      append_crc |-> FALSE, chip_page_size |-> page,
      data |-> uint8ArrayToBase64(blk), crc |-> writeCrc(fileData)]

\* RPCCall("programmer_write_block",
\*         { block_id, chip_page_size, data: blockDataB64, crc })
WriteBlockReq(blockId, bs, page) ==
  LET blk == fileBlock(fileData, blockId, bs)
  IN [method |-> "programmer_write_block", block_id |-> blockId,
      append_crc |-> FALSE, chip_page_size |-> page,
      data |-> uint8ArrayToBase64(blk), crc |-> writeCrc(blk)]

\* The block call of the current loop iteration (re-issued by a retry).
CurBlockReq ==
  IF op = "write" THEN WriteBlockReq(i, BLOCK_SIZE, pageSize)
  ELSE ReadBlockReq(i, append_crc)

\* The call the running generator is about to send.
CurReq ==
  IF phase = "size"
  THEN SizeReq(IF op = "write" THEN "get_write_block_size" ELSE "get_read_block_size")
  ELSE CurBlockReq

\* data.parts.find(part => part.model === chipName)
findChip(name) == { c \in Catalog : c.model = name }

\* ------------------------------------------------------- channel manager

\* Mutant: a retry of a block is sent under the id of the attempt before.
SendRetrySameId(req) ==
  LET id == IF req.block_id >= 0 /\ sent # <<>>
                 /\ sent[Len(sent)].method = req.method
                 /\ sent[Len(sent)].block_id = req.block_id
            THEN rpcId ELSE rpcId + 1
      msg == [id |-> id, method |-> req.method, block_id |-> req.block_id,
              append_crc |-> req.append_crc, chip_page_size |-> req.chip_page_size,
              data |-> req.data, crc |-> req.crc]
  IN /\ rpcId' = id
     /\ sent' = Append(sent, msg)
     /\ wire' = wire \cup {msg}
     /\ awaitId' = id
     /\ pc' = "wait"

\* rpcId++; ws.send(jsonrpc.request(rpcId, method, params)); return rpcId
\* followed by the caller's getRPCResponse(rpcId).
Send(req) ==
  LET msg == [id |-> rpcId + 1, method |-> req.method, block_id |-> req.block_id,
              append_crc |-> req.append_crc, chip_page_size |-> req.chip_page_size,
              data |-> req.data, crc |-> req.crc]
  IN /\ rpcId' = rpcId + 1
     /\ sent' = Append(sent, msg)
     /\ wire' = wire \cup {msg}
     /\ awaitId' = rpcId + 1
     /\ pc' = "wait"

\* RPCCall: send at once on an open socket, otherwise await connectToWS first.
RPCCall(req) ==
  IF ws = "open"
  THEN Send(req) /\ ws' = ws
  ELSE /\ ws' = "connecting"
       /\ pc' = "connecting"
       /\ wire' = {}
       /\ UNCHANGED <<rpcId, sent, awaitId>>

\* ws 'message' listener: push the decoded message, keep the last 64.
onMessage(buffer, response) ==
  LET pushed == Append(buffer, response)
  IN IF Len(pushed) > BufferCap THEN Tail(pushed) ELSE pushed

\* receiveBuffer.find(resp => resp.payload && resp.payload.id === id)
hasPayload(resp) == resp.type \in {"request", "notification", "success", "error"}

\* Mutant: the first envelope with a payload is taken, whatever its id.
matchingAnyId(id) ==
  { k \in 1..Len(receiveBuffer) : hasPayload(receiveBuffer[k]) }

matching(id) ==
  { k \in 1..Len(receiveBuffer) :
      hasPayload(receiveBuffer[k]) /\ receiveBuffer[k].id = id }

findResponse(id) ==
  LET ks == matching(id)
  IN receiveBuffer[CHOOSE k \in ks : \A m \in ks : k <= m]

\* ------------------------------------------------- transfer continuations

\* The generator issues its next call.
Call(req, newI, newAttempts, newPhase, newFails) ==
  /\ i' = newI
  /\ attempts' = newAttempts
  /\ phase' = newPhase
  /\ fails' = newFails
  /\ RPCCall(req)
  /\ UNCHANGED <<op, status, error, stage>>

\* The generator returns (res = "done") or throws (res = "failed").
Finish(res, err, newFails) ==
  /\ pc' = "idle"
  /\ fails' = newFails
  /\ op' = "none"
  /\ status' = [status EXCEPT ![op] = res]
  /\ error' = [error EXCEPT ![op] = err]
  /\ stage' = IF stage = "w" /\ res = "done" THEN "r" ELSE "end"
  /\ UNCHANGED <<ws, rpcId, sent, wire, awaitId, i, attempts, phase>>

\* Mutant: the loop condition reads attempts <= 3.
AttemptFailedOffByOne(cause) ==
  IF attempts <= MaxAttempts
  THEN Call(CurBlockReq, i, attempts + 1, "block", Append(fails, cause))
  ELSE Finish("failed", [kind |-> "retries", block |-> i], Append(fails, cause))

\* Mutant: a checksum mismatch retries without using up an attempt.
AttemptFailedCrcFree(cause) ==
  IF cause = "crc"
  THEN Call(CurBlockReq, i, attempts, "block", Append(fails, cause))
  ELSE IF attempts < MaxAttempts
  THEN Call(CurBlockReq, i, attempts + 1, "block", Append(fails, cause))
  ELSE Finish("failed", [kind |-> "retries", block |-> i], Append(fails, cause))

\* Mutant: a failed attempt moves on to the next block (the catch continues
\* the for loop instead of the while loop).
AttemptFailedSkip(cause) ==
  IF attempts < MaxAttempts
  THEN Call(IF op = "write" THEN WriteBlockReq(i + 1, BLOCK_SIZE, pageSize)
            ELSE ReadBlockReq(i + 1, append_crc),
            i + 1, attempts + 1, "block", Append(fails, cause))
  ELSE Finish("failed", [kind |-> "retries", block |-> i], Append(fails, cause))

\* End of one pass of while (!valid && attempts < 3) that did not succeed:
\* another attempt, or throw new Error(`Failed to ... block ${i} after 3 attempts.`)
AttemptFailed(cause) ==
  IF attempts < MaxAttempts
  THEN Call(CurBlockReq, i, attempts + 1, "block", Append(fails, cause))
  ELSE Finish("failed", [kind |-> "retries", block |-> i], Append(fails, cause))

\* Mutant: the length of the buffer is not compared with the block size.
WriteSizedNoCheck(bs) ==
  /\ BLOCK_SIZE' = bs
  /\ UNCHANGED <<blockData, yieldedW, yieldedR>>
  /\ IF findChip(chipName) = {}
     THEN Finish("failed", [kind |-> "typeerror", block |-> -1], fails) /\ UNCHANGED pageSize
     ELSE LET chip == CHOOSE c \in findChip(chipName) : TRUE
          IN /\ pageSize' = chip.page_size
             /\ IF 0 < Len(fileData) \div bs
                THEN Call(WriteBlockReq(0, bs, chip.page_size), 0, 1, "block", <<>>)
                ELSE Finish("done", NoError, fails)

\* Mutant: an empty buffer is refused like one of the wrong length.
WriteSizedRejectEmpty(bs) ==
  /\ BLOCK_SIZE' = bs
  /\ UNCHANGED <<blockData, yieldedW, yieldedR>>
  /\ IF bs = 0 \/ Len(fileData) = 0 \/ Len(fileData) % bs # 0
     THEN Finish("failed", [kind |-> "length", block |-> -1], fails) /\ UNCHANGED pageSize
     ELSE IF findChip(chipName) = {}
     THEN Finish("failed", [kind |-> "typeerror", block |-> -1], fails) /\ UNCHANGED pageSize
     ELSE LET chip == CHOOSE c \in findChip(chipName) : TRUE
          IN /\ pageSize' = chip.page_size
             /\ IF 0 < Len(fileData) \div bs
                THEN Call(WriteBlockReq(0, bs, chip.page_size), 0, 1, "block", <<>>)
                ELSE Finish("done", NoError, fails)

\* writeChipBlocks after getBlockSize returned bs.
WriteSized(bs) ==
  /\ BLOCK_SIZE' = bs
  /\ UNCHANGED <<blockData, yieldedW, yieldedR>>
  /\ IF bs = 0 \/ Len(fileData) % bs # 0
     THEN Finish("failed", [kind |-> "length", block |-> -1], fails) /\ UNCHANGED pageSize
     ELSE IF findChip(chipName) = {}
     THEN Finish("failed", [kind |-> "typeerror", block |-> -1], fails) /\ UNCHANGED pageSize
     ELSE LET chip == CHOOSE c \in findChip(chipName) : TRUE
          IN /\ pageSize' = chip.page_size
             /\ IF 0 < Len(fileData) \div bs
                THEN Call(WriteBlockReq(0, bs, chip.page_size), 0, 1, "block", <<>>)
                ELSE Finish("done", NoError, fails)

\* writeChipBlocks after a block's getRPCResponse returned: yield blockId, next block.
WriteAcked ==
  /\ yieldedW' = Append(yieldedW, i)
  /\ UNCHANGED <<BLOCK_SIZE, pageSize, blockData, yieldedR>>
  /\ IF i + 1 < Len(fileData) \div BLOCK_SIZE
     THEN Call(WriteBlockReq(i + 1, BLOCK_SIZE, pageSize), i + 1, 1, "block", <<>>)
     ELSE Finish("done", NoError, fails)

\* Mutant: written = true is set although the call threw.
OnThrowAsWritten(cause) ==
  IF phase = "size"
  THEN /\ Finish("failed", [kind |-> IF op = "write" THEN "blocksize" ELSE cause,
                            block |-> -1], fails)
       /\ UNCHANGED <<BLOCK_SIZE, pageSize, blockData, yieldedW, yieldedR>>
  ELSE IF op = "write"
  THEN WriteAcked
  ELSE /\ AttemptFailed(cause)
       /\ UNCHANGED <<BLOCK_SIZE, pageSize, blockData, yieldedW, yieldedR>>

\* Mutant: the block loops have no try/catch, the first failure ends the transfer.
OnThrowNoCatch(cause) ==
  /\ Finish("failed", [kind |-> IF op = "write" /\ phase = "size" THEN "blocksize"
                                ELSE cause,
                       block |-> -1], fails)
  /\ UNCHANGED <<BLOCK_SIZE, pageSize, blockData, yieldedW, yieldedR>>

\* RPCCall or getRPCResponse threw (connect failure, error response, timeout).
\* getBlockSize rethrows as "Failed to retrieve block size";
\* getNumberOfBlocksForChip lets the error through; the block loops catch it.
OnThrow(cause) ==
  /\ IF phase = "size"
     THEN Finish("failed", [kind |-> IF op = "write" THEN "blocksize" ELSE cause,
                            block |-> -1], fails)
     ELSE AttemptFailed(cause)
  /\ UNCHANGED <<BLOCK_SIZE, pageSize, blockData, yieldedW, yieldedR>>

\* Mutant: the loop condition reads i <= num_blocks.
readMoreInclusive(blk, bs) ==
  LET chip == CHOOSE c \in findChip(chipName) : TRUE
  IN blk * bs <= chip.capacity

\* i < num_blocks with num_blocks = capacity / blockSize (a JS number division).
readMore(blk, bs) ==
  LET chip == CHOOSE c \in findChip(chipName) : TRUE
  IN blk * bs < chip.capacity

\* readChipBlocks after getNumberOfBlocksForChip returned.
ReadSized(bs) ==
  /\ BLOCK_SIZE' = bs
  /\ UNCHANGED <<pageSize, blockData, yieldedW, yieldedR>>
  /\ IF readMore(0, bs)
     THEN Call(ReadBlockReq(0, append_crc), 0, 1, "block", <<>>)
     ELSE Finish("done", NoError, fails)

\* readChipBlocks after a block's getRPCResponse returned resp.
ReadAnswered(resp) ==
  IF atobThrows(resp.str)
  THEN AttemptFailed("decode")
       /\ UNCHANGED <<BLOCK_SIZE, pageSize, blockData, yieldedW, yieldedR>>
  ELSE LET decoded == base64ToUint8Array(resp.str)
       IN /\ blockData' = decoded
          /\ UNCHANGED <<BLOCK_SIZE, pageSize, yieldedW>>
          /\ IF readValid(decoded, append_crc)
             THEN /\ yieldedR' = Append(yieldedR, readYield(decoded, append_crc))
                  /\ IF readMore(i + 1, BLOCK_SIZE)
                     THEN Call(ReadBlockReq(i + 1, append_crc), i + 1, 1, "block", <<>>)
                     ELSE Finish("done", NoError, fails)
             ELSE AttemptFailed("crc") /\ UNCHANGED yieldedR

\* getRPCResponse returned resp to the running generator.
OnReturn(resp) ==
  IF phase = "size"
  THEN IF op = "write" THEN WriteSized(resp.num) ELSE ReadSized(resp.num)
  ELSE IF op = "write" THEN WriteAcked ELSE ReadAnswered(resp)

\* ------------------------------------------------------------------ device

\* What the device holds at a block id (erased flash reads 0xFF, one read
\* block of it).
Stored(id) == IF id \in DOMAIN flash THEN flash[id] ELSE [k \in 1..devRead |-> 255]

\* Ways the device may answer: "ok", an error response, a block whose last
\* byte is wrong, a block that lost its last byte.
ReplyModes(req) ==
  IF req.method = "programmer_read_block" /\ ~honest
  THEN {"ok", "err", "badcrc", "short"}
  ELSE {"ok", "err"}

\* Bytes of the answer to programmer_read_block.
ReadPayload(req, mode) ==
  LET stored == Stored(req.block_id)
      full == IF req.append_crc
              THEN Append(stored, reduceSum(stored, 0) % 256)
              ELSE stored
  IN CASE mode = "badcrc" ->
            IF Len(full) = 0 THEN full
            ELSE [full EXCEPT ![Len(full)] = (full[Len(full)] + 1) % 256]
       [] mode = "short" -> sliceDropLast(full)
       [] OTHER -> full

\* The decoded message the device's answer becomes in the browser.
Reply(req, mode) ==
  IF mode = "err"
  THEN [type |-> "error", id |-> req.id, num |-> -32603, str |-> <<>>]
  ELSE CASE req.method = "get_read_block_size" ->
              [type |-> "success", id |-> req.id, num |-> devRead, str |-> <<>>]
         [] req.method = "get_write_block_size" ->
              [type |-> "success", id |-> req.id, num |-> devWrite, str |-> <<>>]
         [] req.method = "programmer_write_block" ->
              [type |-> "success", id |-> req.id, num |-> req.crc, str |-> <<>>]
         [] OTHER ->
              [type |-> "success", id |-> req.id, num |-> 0,
               str |-> btoa(ReadPayload(req, mode))]

\* The device answers one outstanding request; the 'message' listener runs.
DeviceReply(req, mode) ==
  /\ req \in wire
  /\ mode \in ReplyModes(req)
  /\ mode # "ok" => faults < budget
  /\ faults' = IF mode = "ok" THEN faults ELSE faults + 1
  /\ wire' = wire \ {req}
  /\ flash' = IF req.method = "programmer_write_block" /\ mode = "ok"
              THEN (req.block_id :> atob(req.data)) @@ flash
              ELSE flash
  /\ receiveBuffer' = onMessage(receiveBuffer, Reply(req, mode))
  /\ UNCHANGED <<ws, rpcId, devRead, devWrite, honest, budget, sent, resolved,
                 fails, callerVars, xferVars, pure, mgrVars>>

\* ------------------------------------------------------------------ actions

\* for await (... of writeChipBlocks(chipName, fileData, true, DEBUG))
StartWrite(chip, data) ==
  /\ pc = "idle"
  /\ stage \in {"click", "w"}
  /\ op' = "write"
  /\ chipName' = chip
  /\ fileData' = data
  /\ status' = [status EXCEPT !.write = "running"]
  /\ phase' = "size"
  /\ i' = 0
  /\ attempts' = 0
  /\ RPCCall(SizeReq("get_write_block_size"))
  /\ UNCHANGED <<fails, receiveBuffer, flash, devRead, devWrite, honest, faults, budget, resolved,
                 stage, error, yieldedW, yieldedR, append_crc, BLOCK_SIZE,
                 pageSize, blockData, pure, mgrVars>>

\* for await (... of readChipBlocks(chipName, append_crc, DEBUG))
StartRead(chip, appendCrc) ==
  /\ pc = "idle"
  /\ stage \in {"click", "r"}
  /\ chipName' = chip
  /\ append_crc' = appendCrc
  /\ IF findChip(chip) = {}
     THEN /\ status' = [status EXCEPT !.read = "failed"]
          /\ error' = [error EXCEPT !.read = [kind |-> "chipnotfound", block |-> -1]]
          /\ stage' = "end"
          /\ UNCHANGED <<ws, rpcId, sent, wire, awaitId, pc, op, phase, i, attempts>>
     ELSE /\ op' = "read"
          /\ status' = [status EXCEPT !.read = "running"]
          /\ phase' = "size"
          /\ i' = 0
          /\ attempts' = 0
          /\ RPCCall(SizeReq("get_read_block_size"))
          /\ UNCHANGED <<stage, error>>
  /\ UNCHANGED <<receiveBuffer, flash, devRead, devWrite, honest, faults, budget, resolved,
                 fails, yieldedW, yieldedR, fileData, BLOCK_SIZE, pageSize, blockData,
                 pure, mgrVars>>

\* ws 'open' listener: connectToWS resolves and RPCCall goes on to send.
WsOpen ==
  /\ pc = "connecting"
  /\ ws = "connecting"
  /\ ws' = "open"
  /\ Send(CurReq)
  /\ UNCHANGED <<fails, receiveBuffer, flash, devRead, devWrite, honest, faults, budget, resolved,
                 callerVars, op, phase, chipName, append_crc, fileData, BLOCK_SIZE,
                 pageSize, i, attempts, blockData, pure, mgrVars>>

\* ws 'error' listener before the socket opened: connectToWS rejects.
WsError ==
  /\ pc = "connecting"
  /\ ws = "connecting"
  /\ faults < budget
  /\ faults' = faults + 1
  /\ ws' = "closed"
  /\ pc' = "rejected"
  /\ UNCHANGED <<rpcId, receiveBuffer, devVars, budget, sent, resolved, fails, callerVars,
                 op, phase, chipName, append_crc, fileData, BLOCK_SIZE, pageSize,
                 i, attempts, blockData, awaitId, pure, mgrVars>>

\* RPCCall: throw new Error("Failed to connect to WebSocket: " + error)
ConnectFailed ==
  /\ pc = "rejected"
  /\ OnThrow("connect")
  /\ UNCHANGED <<receiveBuffer, flash, devRead, devWrite, honest, faults, budget, resolved,
                 chipName, append_crc, fileData, pure, mgrVars>>

\* ws 'close' listener: the open socket is closed; what was in flight is gone.
WsClose ==
  /\ ws = "open"
  /\ faults < budget
  /\ faults' = faults + 1
  /\ ws' = "closed"
  /\ wire' = {}
  /\ UNCHANGED <<rpcId, receiveBuffer, flash, devRead, devWrite, honest, budget, sent,
                 resolved, fails, callerVars, xferVars, pure, mgrVars>>

\* getRPCResponse: a poll finds the response with the awaited id.
PollMatch ==
  /\ pc = "wait"
  /\ matching(awaitId) # {}
  /\ resolved' = resolved \cup {awaitId}
  /\ LET response == findResponse(awaitId)
     IN IF response.type = "error" THEN OnThrow("rpc") ELSE OnReturn(response)
  /\ UNCHANGED <<receiveBuffer, flash, devRead, devWrite, honest, faults, budget,
                 chipName, append_crc, fileData, pure, mgrVars>>

\* getRPCResponse: 40 s pass without a poll finding the response.
PollTimeout ==
  /\ pc = "wait"
  /\ LET lost == matching(awaitId) = {} /\ ~ \E m \in wire : m.id = awaitId
     IN /\ lost \/ faults < budget
        /\ faults' = IF lost THEN faults ELSE faults + 1
  /\ resolved' = resolved \cup {awaitId}
  /\ OnThrow("timeout")
  /\ UNCHANGED <<receiveBuffer, flash, devRead, devWrite, honest, budget,
                 chipName, append_crc, fileData, pure, mgrVars>>

\* ------------------------------------------------------------ specification

\* Module state at page load, the device apart.
InitPage ==
  /\ ws = "null"
  /\ rpcId = 0
  /\ receiveBuffer = <<>>
  /\ wire = {}
  /\ flash = <<>>
  /\ faults = 0
  /\ sent = <<>>
  /\ resolved = {}
  /\ fails = <<>>
  /\ status = [write |-> "none", read |-> "none"]
  /\ error = [write |-> NoError, read |-> NoError]
  /\ yieldedW = <<>>
  /\ yieldedR = <<>>
  /\ op = "none"
  /\ pc = "idle"
  /\ phase = "size"
  /\ chipName = "W25Q32"
  /\ append_crc = TRUE
  /\ fileData = <<>>
  /\ BLOCK_SIZE = 0
  /\ pageSize = 0
  /\ i = 0
  /\ attempts = 0
  /\ blockData = <<>>
  /\ awaitId = 0
  /\ sockets = <<>>
  /\ tasks = <<>>
  /\ progress = 0
  /\ delivered = 0
  /\ replay = ReplayIdle
  /\ cache = CacheIdle

InitCommon ==
  /\ InitPage
  /\ \E d \in DeviceProfiles : devRead = d.read /\ devWrite = d.write

Init ==
  /\ InitCommon
  /\ codec = CodecIdle
  /\ script = <<>>
  /\ honest = FALSE
  /\ budget = MaxFaults
  /\ stage = "click"
  /\ pure = PureIdle

InitHonest ==
  /\ InitCommon
  /\ codec = CodecIdle
  /\ script = <<>>
  /\ honest = TRUE
  /\ budget = MaxFaultsHonest
  /\ stage = "w"
  /\ pure = PureIdle

Next ==
  \/ \E chip \in ChipNames, data \in SeqsUpTo(FileBytes, MaxFileLen) : StartWrite(chip, data)
  \/ \E chip \in ChipNames, appendCrc \in BOOLEAN : StartRead(chip, appendCrc)
  \/ WsOpen
  \/ WsError
  \/ ConnectFailed
  \/ WsClose
  \/ \E req \in wire, mode \in {"ok", "err", "badcrc", "short"} : DeviceReply(req, mode)
  \/ PollMatch
  \/ PollTimeout

Spec == Init /\ [][Next]_vars

\* ------------------------------------------------- a transfer run to its end

\* Calls after which a run is cut off. A transfer over k blocks sends at most
\* 1 + 3k calls, and a chip or buffer of n bytes has at most n blocks of a
\* size that is not zero: with the 4 bytes of the catalog's chip that is 13.
MaxCalls == 14

\* The devices of DeviceProfiles, and one whose get_read_block_size answers
\* result: 0.
LiveProfiles == DeviceProfiles \cup { [read |-> 0, write |-> 1] }

InitLive ==
  /\ InitPage
  /\ \E d \in LiveProfiles : devRead = d.read /\ devWrite = d.write
  /\ codec = CodecIdle
  /\ script = <<>>
  /\ honest = FALSE
  /\ budget = MaxFaultsLive
  /\ stage = "click"
  /\ pure = PureIdle

\* What the event loop and the device owe a running transfer: the socket
\* opens or fails, the device answers what it was sent, the polling timer of
\* getRPCResponse fires.
Progress ==
  \/ WsOpen
  \/ ConnectFailed
  \/ \E req \in wire : DeviceReply(req, "ok")
  \/ rpcId < MaxCalls /\ PollMatch
  \/ rpcId < MaxCalls /\ PollTimeout

NextLive ==
  \/ \E chip \in ChipNames, data \in SeqsUpTo(FileBytes, MaxFileLen) : StartWrite(chip, data)
  \/ \E chip \in ChipNames, appendCrc \in BOOLEAN : StartRead(chip, appendCrc)
  \/ WsOpen
  \/ WsError
  \/ ConnectFailed
  \/ WsClose
  \/ \E req \in wire, mode \in {"ok", "err", "badcrc", "short"} : DeviceReply(req, mode)
  \/ rpcId < MaxCalls /\ PollMatch
  \/ rpcId < MaxCalls /\ PollTimeout

SpecLive == InitLive /\ [][NextLive]_vars /\ WF_vars(Progress)

\* Flash a known chip, then dump it, against a device that never corrupts data.
NextHonest ==
  \/ \E chip \in { c.model : c \in Catalog }, data \in SeqsUpTo(FileBytes, MaxFileLen) :
        StartWrite(chip, data)
  \/ \E chip \in { c.model : c \in Catalog }, appendCrc \in BOOLEAN :
        StartRead(chip, appendCrc)
  \/ WsOpen
  \/ WsError
  \/ ConnectFailed
  \/ WsClose
  \/ \E req \in wire, mode \in {"ok", "err"} : DeviceReply(req, mode)
  \/ PollMatch
  \/ PollTimeout

SpecHonest == InitHonest /\ [][NextHonest]_vars

\* ---------------------------------------------------- checksum helpers alone

\* const crc = blockData.reduce(...) % 256 on the write path
PureCrc ==
  /\ pure.step = "in"
  /\ pure' = [pure EXCEPT !.step = "crc", !.crc = writeCrc(pure.payload)]
  /\ UNCHANGED <<chanVars, devVars, faults, budget, sent, resolved, fails, callerVars,
                 xferVars, mgrVars>>

\* the block travels as base64 with its checksum byte appended
PureFrame ==
  /\ pure.step = "crc"
  /\ pure' = [pure EXCEPT !.step = "frame",
                          !.frame = uint8ArrayToBase64(Append(pure.payload, pure.crc))]
  /\ UNCHANGED <<chanVars, devVars, faults, budget, sent, resolved, fails, callerVars,
                 xferVars, mgrVars>>

\* the read path decodes, validates and strips it
PureCheck ==
  /\ pure.step = "frame"
  /\ ~ atobThrows(pure.frame)
  /\ LET decoded == base64ToUint8Array(pure.frame)
     IN pure' = [pure EXCEPT !.step = "checked",
                             !.accepted = readValid(decoded, TRUE),
                             !.out = readYield(decoded, TRUE)]
  /\ UNCHANGED <<chanVars, devVars, faults, budget, sent, resolved, fails, callerVars,
                 xferVars, mgrVars>>

InitPure ==
  /\ InitCommon
  /\ codec = CodecIdle
  /\ script = <<>>
  /\ honest = TRUE
  /\ budget = 0
  /\ stage = "end"
  /\ \E payload \in SeqsUpTo(PureBytes, MaxLen) :
       pure = [PureIdle EXCEPT !.step = "in", !.payload = payload]

NextPure == PureCrc \/ PureFrame \/ PureCheck

SpecPure == InitPure /\ [][NextPure]_vars

\* ---------------------------------------------------- envelope codec alone

\* Values of the id, result and error members the codec is applied to.
CodecIds == {Undefined, Null, 1, 2}
CodecMethods == {"absent", "programmer_erase_done"}
CodecResults == {Undefined, 0, 1}
CodecErrors == {"absent", "falsy", "object"}

\* Objects an inbound text may parse to.
CodecObjects ==
  { JsonObject(v, id, m, hr, IF hr THEN 1 ELSE Undefined, e) :
      v \in {"2.0", "1.0", "absent"}, id \in CodecIds, m \in CodecMethods \cup {"nonstring"},
      hr \in BOOLEAN, e \in CodecErrors }

CodecTexts ==
  { Text(k, EmptyObject) : k \in {"malformed", "null", "scalar"} }
    \cup { Text("object", o) : o \in CodecObjects }

\* requestObject / notificationObject / successObject / errorObject, then
\* JSON.stringify.
CodecBuild(kind, id, method, result, errdata) ==
  /\ codec.step = "idle"
  /\ method # "absent"
  /\ LET obj == CASE kind = "request" -> requestObject(id, method)
                  [] kind = "notification" -> notificationObject(method)
                  [] kind = "success" -> successObject(id, result)
                  [] OTHER -> errorObject(id, errdata)
     IN codec' = [step |-> "built", kind |-> kind, obj |-> obj, msg |-> TextOf(obj)]
  /\ UNCHANGED <<chanVars, devVars, faults, budget, sent, resolved, fails, callerVars,
                 xferVars, pure, replay, cache, sockets, tasks, progress, script, delivered>>

\* A JavaScript value handed to a constructor: its typeof, the value, the
\* elements when it is an array, and when it is an object whether it is an
\* instance of JsonRpcError and what its code and message members are
\* ("int", "fraction", "string", "missing").
JsValue(type, v) ==
  [type |-> type, v |-> v, items |-> <<>>, instance |-> FALSE,
   code |-> "missing", message |-> "missing"]

JsUndefined == JsValue("undefined", "undefined")
JsNull == JsValue("object", "null")

\* [params]
JsArray(items) == [JsValue("object", "array") EXCEPT !.items = items]

\* An object with code and message members, made by new JsonRpcError(...)
\* or a derivative (instance) or as a literal.
JsError(instance, code, message) ==
  [JsValue("object", "error") EXCEPT !.instance = instance, !.code = code,
                                     !.message = message]

isString(obj) == obj.type = "string"
isNumber(obj) == obj.type = "number"
isObject(obj) == obj.type = "object"
isArray(obj) == obj.v = "array"
isNullValue(obj) == obj.v = "null"

\* if (params): false for undefined, null, 0, NaN, "" and false
truthy(obj) == obj.v \notin {"undefined", "null", "0", "NaN", "", "false"}

\* id % 1 !== 0
notWhole(obj) == obj.v \in {"1.5", "NaN"}

\* Mutant: the fraction test of checkId is dropped.
checkIdAnyNumber(id) ==
  IF ~ isString(id) /\ ~ isNumber(id) THEN <<"id">> ELSE <<>>

checkId(id) ==
  IF ~ isString(id) /\ (~ isNumber(id) \/ (isNumber(id) /\ notWhole(id)))
  THEN <<"id">> ELSE <<>>

checkErrorId(id) ==
  IF ~ isNullValue(id) /\ ~ isString(id)
       /\ (~ isNumber(id) \/ (isNumber(id) /\ notWhole(id)))
  THEN <<"id">> ELSE <<>>

checkMethod(method) == IF ~ isString(method) THEN <<"method">> ELSE <<>>

checkResult(result) == IF result = JsUndefined THEN <<"result">> ELSE <<>>

\* checkError; the test of the code reads
\* !isNumber(code) && (isNumber(code) && code % 1 !== 0)
checkError(err) ==
  IF ~ isObject(err) THEN <<"error object">>
  ELSE IF ~ err.instance THEN <<"error instance">>
  ELSE LET codeIsNumber == err.code \in {"int", "fraction"}
       IN (IF ~ codeIsNumber /\ (codeIsNumber /\ err.code = "fraction")
           THEN <<"code">> ELSE <<>>)
          \o (IF err.message # "string" THEN <<"message">> ELSE <<>>)

\* The data object a constructor hands to _validateMessageStructure.
Data(id, method, result, err) ==
  [id |-> id, method |-> method, result |-> result, error |-> err]

\* _validateMessageStructure: the messages collected (<<>> for null).
validateMessageStructure(type, data) ==
  CASE type = "request" -> checkId(data.id) \o checkMethod(data.method)
    [] type = "notification" -> checkMethod(data.method)
    [] type = "success" -> checkId(data.id) \o checkResult(data.result)
    [] OTHER -> checkErrorId(data.id) \o checkError(data.error)

\* What a constructor returns: the list of messages, or the object that
\* JSON.stringify serializes.
Errors(errors) == [ok |-> FALSE, errors |-> errors, obj |-> [jsonrpc |-> "none"]]
Serialized(obj) == [ok |-> TRUE, errors |-> <<>>, obj |-> obj]

\* requestObject with its params argument.
requestObjectParams(id, method, params) ==
  [jsonrpc |-> "2.0", id |-> id, method |-> method, hasParams |-> truthy(params),
   params |-> IF truthy(params) THEN params ELSE JsUndefined]

\* jsonrpc.request
request(id, method, params) ==
  LET wrapped == IF truthy(params) /\ ~ isObject(params) /\ ~ isArray(params)
                 THEN JsArray(<<params>>) ELSE params
      errors == validateMessageStructure("request",
                                         Data(id, method, JsUndefined, JsUndefined))
  IN IF errors # <<>> THEN Errors(errors)
     ELSE Serialized(requestObjectParams(id, method, wrapped))

\* jsonrpc.error
jsonrpcError(id, errdata) ==
  LET errors == validateMessageStructure("error",
                                         Data(id, JsUndefined, JsUndefined, errdata))
  IN IF errors # <<>> THEN Errors(errors)
     ELSE Serialized([jsonrpc |-> "2.0", id |-> id, error |-> errdata])

\* Values the constructors are called with.
JsScalars ==
  { JsValue("number", v) : v \in {"0", "1", "1.5", "NaN"} }
    \cup { JsValue("string", v) : v \in {"", "a"} }
    \cup { JsValue("boolean", v) : v \in {"false", "true"} }

JsValues ==
  JsScalars \cup {JsUndefined, JsNull, JsValue("object", "object"), JsArray(<<>>)}

JsErrors ==
  { JsError(inst, code, message) :
      inst \in BOOLEAN, code \in {"int", "fraction", "string", "missing"},
      message \in {"string", "number", "missing"} }

\* if (this.errorHandler) { this.errorHandler(errors) }
errorHandlerCalls(out) ==
  IF codec.handler /\ ~ out.ok THEN <<out.errors>> ELSE <<>>

\* jsonrpc.request(id, method, params)
CodecRequest(id, method, params) ==
  /\ codec.step = "idle"
  /\ LET out == request(id, method, params)
     IN codec' = [step |-> "constructed", kind |-> "request", handler |-> codec.handler,
                  id |-> id, method |-> method, params |-> params,
                  errdata |-> JsUndefined, out |-> out,
                  hooked |-> errorHandlerCalls(out)]
  /\ UNCHANGED <<chanVars, devVars, faults, budget, sent, resolved, fails, callerVars,
                 xferVars, pure, replay, cache, sockets, tasks, progress, script, delivered>>

\* jsonrpc.error(id, errdata)
CodecError(id, errdata) ==
  /\ codec.step = "idle"
  /\ LET out == jsonrpcError(id, errdata)
     IN codec' = [step |-> "constructed", kind |-> "error", handler |-> codec.handler,
                  id |-> id, method |-> JsUndefined, params |-> JsUndefined,
                  errdata |-> errdata, out |-> out,
                  hooked |-> errorHandlerCalls(out)]
  /\ UNCHANGED <<chanVars, devVars, faults, budget, sent, resolved, fails, callerVars,
                 xferVars, pure, replay, cache, sockets, tasks, progress, script, delivered>>

\* jsonrpc.deserialize(event.data)
CodecDeserialize ==
  /\ codec.step \in {"built", "received"}
  /\ codec' = [step |-> IF deserializeThrows(codec.msg) THEN "threw" ELSE "decoded",
               kind |-> codec.kind, obj |-> codec.obj, msg |-> codec.msg,
               env |-> IF deserializeThrows(codec.msg)
                       THEN Envelope("TypeError", Undefined, Undefined)
                       ELSE deserialize(codec.msg)]
  /\ UNCHANGED <<chanVars, devVars, faults, budget, sent, resolved, fails, callerVars,
                 xferVars, pure, replay, cache, sockets, tasks, progress, script, delivered>>

InitCodec ==
  /\ InitCommon
  /\ devRead = 2
  /\ script = <<>>
  /\ honest = TRUE
  /\ budget = 0
  /\ stage = "end"
  /\ pure = PureIdle
  /\ \/ \E handler \in BOOLEAN : codec = [step |-> "idle", handler |-> handler]
     \/ \E msg \in CodecTexts :
          codec = [step |-> "received", kind |-> "inbound", obj |-> msg.obj, msg |-> msg]

NextCodec ==
  \/ \E kind \in {"request", "notification", "success", "error"}, id \in CodecIds,
        method \in CodecMethods, result \in CodecResults, errdata \in CodecErrors :
       CodecBuild(kind, id, method, result, errdata)
  \/ \E id \in JsValues, method \in JsValues, params \in JsValues :
       CodecRequest(id, method, params)
  \/ \E id \in JsValues, errdata \in JsValues \cup JsErrors : CodecError(id, errdata)
  \/ CodecDeserialize

SpecCodec == InitCodec /\ [][NextCodec]_vars


\* ------------------------------------- channel manager, concurrent callers

\* ws.readyState of the socket ws refers to (the one created last).
readyState(socks) == IF socks = <<>> THEN "null" ELSE socks[Len(socks)]

NoEnvelope == Envelope("none", Undefined, Undefined)

\* One call chain: const rpcId = await RPCCall(method, {}); await getRPCResponse(rpcId).
\* pc: "connecting" (await connectToWS), "wait" (getRPCResponse), "returned", "threw".
\* elapsed: Date.now() - startTime at the last test of the loop condition, 0
\* outside getRPCResponse (startTime is a local of the call).
\* sock: the socket whose connectToWS promise the chain awaits and, from
\* ws.send on, the socket ws referred to at the send; via: the readyState of
\* that socket at the send.
Task(method, taskPc, sock) ==
  [method |-> method, pc |-> taskPc, sock |-> sock, id |-> 0, elapsed |-> 0,
   err |-> "none", result |-> NoEnvelope, via |-> "none"]

\* The module state of ws_manager.js and the pending call chains, as a value.
Mgr == [sockets |-> sockets, rpcId |-> rpcId, sent |-> sent, wire |-> wire, tasks |-> tasks]

\* jsonrpc.request(rpcId, method, {}) as handed to ws.send.
sentMsg(id, method) ==
  [id |-> id, method |-> method, block_id |-> -1, append_crc |-> FALSE,
   chip_page_size |-> -1, data |-> <<>>, crc |-> -1]

\* Mutant: rpcId is not incremented.
sendOnSameId(c, t, method) ==
  LET id == c.rpcId
      state == readyState(c.sockets)
  IN IF state = "connecting"
     THEN [c EXCEPT !.tasks[t].pc = "threw", !.tasks[t].err = "send",
                    !.tasks[t].sock = Len(c.sockets), !.tasks[t].via = state]
     ELSE [c EXCEPT !.sent = Append(@, sentMsg(id, method)),
                    !.wire = IF state = "open"
                             THEN @ \cup {[id |-> id, method |-> method, sock |-> Len(c.sockets)]}
                             ELSE @,
                    !.tasks[t].pc = "wait",
                    !.tasks[t].id = id,
                    !.tasks[t].sock = Len(c.sockets),
                    !.tasks[t].via = state]

\* RPCCall from rpcId++ on: ws.send throws on a socket that is still
\* connecting, and drops the data on one that is closing or closed.
sendOn(c, t, method) ==
  LET id == c.rpcId + 1
      state == readyState(c.sockets)
  IN IF state = "connecting"
     THEN [c EXCEPT !.rpcId = id, !.tasks[t].pc = "threw", !.tasks[t].err = "send",
                    !.tasks[t].sock = Len(c.sockets), !.tasks[t].via = state]
     ELSE [c EXCEPT !.rpcId = id,
                    !.sent = Append(@, sentMsg(id, method)),
                    !.wire = IF state = "open"
                             THEN @ \cup {[id |-> id, method |-> method, sock |-> Len(c.sockets)]}
                             ELSE @,
                    !.tasks[t].pc = "wait",
                    !.tasks[t].id = id,
                    !.tasks[t].sock = Len(c.sockets),
                    !.tasks[t].via = state]

\* RPCCall up to its first await: send at once on an open socket, otherwise
\* connectToWS: ws = new WebSocket(wsUrl).
rpcCall(c, method) ==
  IF readyState(c.sockets) = "open"
  THEN sendOn([c EXCEPT !.tasks = Append(@, Task(method, "call", Len(c.sockets)))],
              Len(c.tasks) + 1, method)
  ELSE [c EXCEPT !.sockets = Append(@, "connecting"),
                 !.tasks = Append(@, Task(method, "connecting", Len(c.sockets) + 1))]

Apply(c) ==
  /\ sockets' = c.sockets
  /\ ws' = readyState(c.sockets)
  /\ rpcId' = c.rpcId
  /\ sent' = c.sent
  /\ wire' = c.wire
  /\ tasks' = c.tasks

\* The call chain that awaits connectToWS on socket s.
connecting(s) == { t \in 1..Len(tasks) : tasks[t].sock = s /\ tasks[t].pc = "connecting" }

\* ws 'message' listener; a throwing deserialize ends it before the push.
onMessageEvent(buffer, msg) ==
  IF deserializeThrows(msg) THEN buffer ELSE onMessage(buffer, deserialize(msg))

\* Mutant: the comparison of the loop condition is inverted.
loopRunsInverted(elapsed) == elapsed > TimeoutMs

\* getRPCResponse: while (Date.now() - startTime < 40000)
loopRuns(elapsed) == elapsed < TimeoutMs

\* detect click handler: detectChipFromFlash(DEBUG)
DetectClick ==
  /\ Len(tasks) + 1 <= MaxTasks
  /\ Apply(rpcCall(Mgr, "get_jedec_id"))
  /\ UNCHANGED <<receiveBuffer, flash, devRead, devWrite, honest, faults, budget, resolved,
                 fails, callerVars, xferVars, pure, replay, cache, progress, script, delivered, codec>>

\* erase click handler: startEraseChip(...) and getEraseDone(...) are both
\* called without await; !getEraseDone(...) negates a promise, so the while
\* loop is not entered and the bar goes to 100% in the same turn.
EraseClick ==
  /\ Len(tasks) + 2 <= MaxTasks
  /\ Apply(rpcCall(rpcCall(Mgr, "programmer_start_erase_chip"), "programmer_erase_done"))
  /\ progress' = 100
  /\ UNCHANGED <<receiveBuffer, flash, devRead, devWrite, honest, faults, budget, resolved,
                 fails, callerVars, xferVars, pure, replay, cache, script, delivered, codec>>

\* 'open' listener of socket s: connectToWS resolves, RPCCall goes on to send
\* on whatever ws refers to by now.
SocketOpen(s) ==
  /\ s \in 1..Len(sockets)
  /\ sockets[s] = "connecting"
  /\ LET opened == [Mgr EXCEPT !.sockets[s] = "open"]
     IN IF connecting(s) = {}
        THEN Apply(opened)
        ELSE LET t == CHOOSE u \in connecting(s) : TRUE
             IN Apply(sendOn(opened, t, tasks[t].method))
  /\ UNCHANGED <<receiveBuffer, flash, devRead, devWrite, honest, faults, budget, resolved,
                 fails, callerVars, xferVars, pure, replay, cache, progress, script, delivered, codec>>

\* 'error' listener of socket s before it opened: rejects only if the socket
\* ws refers to is not open.
SocketError(s) ==
  /\ s \in 1..Len(sockets)
  /\ sockets[s] = "connecting"
  /\ faults < budget
  /\ faults' = faults + 1
  /\ LET failed == [Mgr EXCEPT !.sockets[s] = "closed"]
     IN IF readyState(failed.sockets) # "open" /\ connecting(s) # {}
        THEN LET t == CHOOSE u \in connecting(s) : TRUE
             IN Apply([failed EXCEPT !.tasks[t].pc = "threw", !.tasks[t].err = "connect"])
        ELSE Apply(failed)
  /\ UNCHANGED <<receiveBuffer, flash, devRead, devWrite, honest, budget, resolved,
                 fails, callerVars, xferVars, pure, replay, cache, progress, script, delivered, codec>>

\* 'close' listener of an open socket; requests in flight on it are lost.
SocketClose(s) ==
  /\ s \in 1..Len(sockets)
  /\ sockets[s] = "open"
  /\ faults < budget
  /\ faults' = faults + 1
  /\ Apply([Mgr EXCEPT !.sockets[s] = "closed",
                       !.wire = { m \in wire : m.sock # s }])
  /\ UNCHANGED <<receiveBuffer, flash, devRead, devWrite, honest, budget, resolved,
                 fails, callerVars, xferVars, pure, replay, cache, progress, script, delivered, codec>>

\* Mutant: the type of the matched envelope is not looked at.
PollFoundNoErrorCheck(t) ==
  /\ t \in 1..Len(tasks)
  /\ tasks[t].pc = "wait"
  /\ loopRuns(tasks[t].elapsed)
  /\ matching(tasks[t].id) # {}
  /\ tasks' = [tasks EXCEPT ![t].pc = "returned", ![t].result = findResponse(tasks[t].id),
                            ![t].elapsed = 0]
  /\ UNCHANGED <<chanVars, devVars, faults, budget, sent, resolved, fails, callerVars,
                 xferVars, pure, replay, cache, sockets, progress, script, delivered, codec>>

\* getRPCResponse of call chain t: a poll finds an envelope with its id.
PollFound(t) ==
  /\ t \in 1..Len(tasks)
  /\ tasks[t].pc = "wait"
  /\ loopRuns(tasks[t].elapsed)
  /\ matching(tasks[t].id) # {}
  /\ LET response == findResponse(tasks[t].id)
     IN tasks' = IF response.type = "error"
                 THEN [tasks EXCEPT ![t].pc = "threw", ![t].err = "rpc", ![t].elapsed = 0]
                 ELSE [tasks EXCEPT ![t].pc = "returned", ![t].result = response,
                                    ![t].elapsed = 0]
  /\ UNCHANGED <<chanVars, devVars, faults, budget, sent, resolved, fails, callerVars,
                 xferVars, pure, replay, cache, sockets, progress, script, delivered, codec>>

\* getRPCResponse of call chain t: a poll finds nothing and sleeps 100 ms.
PollSleep(t) ==
  /\ t \in 1..Len(tasks)
  /\ tasks[t].pc = "wait"
  /\ loopRuns(tasks[t].elapsed)
  /\ matching(tasks[t].id) = {}
  /\ tasks' = [tasks EXCEPT ![t].elapsed = @ + PollMs]
  /\ UNCHANGED <<chanVars, devVars, faults, budget, sent, resolved, fails, callerVars,
                 xferVars, pure, replay, cache, sockets, progress, script, delivered, codec>>

\* getRPCResponse of call chain t: the loop condition fails, throw Timeout.
PollExpire(t) ==
  /\ t \in 1..Len(tasks)
  /\ tasks[t].pc = "wait"
  /\ ~ loopRuns(tasks[t].elapsed)
  /\ tasks' = [tasks EXCEPT ![t].pc = "threw", ![t].err = "timeout", ![t].elapsed = 0]
  /\ UNCHANGED <<chanVars, devVars, faults, budget, sent, resolved, fails, callerVars,
                 xferVars, pure, replay, cache, sockets, progress, script, delivered, codec>>

\* getRPCResponse of call chain t: every poll of the 40 s finds nothing
\* (PollSleep 400 times, then PollExpire, in one step). Free when the request
\* cannot be answered any more.
PollIdle(t) ==
  /\ t \in 1..Len(tasks)
  /\ tasks[t].pc = "wait"
  /\ matching(tasks[t].id) = {}
  /\ LET lost == ~ \E m \in wire : m.id = tasks[t].id
     IN /\ lost \/ faults < budget
        /\ faults' = IF lost THEN faults ELSE faults + 1
  /\ tasks' = [tasks EXCEPT ![t].pc = "threw", ![t].err = "timeout"]
  /\ UNCHANGED <<chanVars, devVars, budget, sent, resolved, fails, callerVars,
                 xferVars, pure, replay, cache, sockets, progress, script, delivered, codec>>

\* Answers of the server to a request: result true, result false, an error.
ReplyText(m, mode) ==
  CASE mode = "true" -> TextOf(successObject(m.id, 1))
    [] mode = "false" -> TextOf(successObject(m.id, 0))
    [] OTHER -> TextOf(errorObject(m.id, "object"))

\* The server answers a request in flight; the 'message' listener of the
\* socket it was sent on runs.
ServerReply(m, mode) ==
  /\ m \in wire
  /\ sockets[m.sock] = "open"
  /\ wire' = wire \ {m}
  /\ receiveBuffer' = onMessageEvent(receiveBuffer, ReplyText(m, mode))
  /\ UNCHANGED <<ws, rpcId, flash, devRead, devWrite, honest, faults, budget, sent, resolved,
                 fails, callerVars, xferVars, pure, replay, cache, sockets, tasks, progress, script,
                 delivered, codec>>

InitChan ==
  /\ InitCommon
  /\ devRead = 2
  /\ honest = TRUE
  /\ budget = MaxChanFaults
  /\ stage = "end"
  /\ pure = PureIdle
  /\ codec = CodecIdle
  /\ script = <<>>

NextChan ==
  \/ DetectClick
  \/ EraseClick
  \/ \E s \in 1..Len(sockets) : SocketOpen(s)
  \/ \E s \in 1..Len(sockets) : SocketError(s)
  \/ \E s \in 1..Len(sockets) : SocketClose(s)
  \/ \E m \in wire, mode \in {"true", "false", "error"} : ServerReply(m, mode)
  \/ \E t \in 1..Len(tasks) : PollFound(t)
  \/ \E t \in 1..Len(tasks) : PollIdle(t)

SpecChan == InitChan /\ [][NextChan]_vars


\* --------------------------------------- getRPCResponse against the clock

\* Texts the server sends.
Filler == TextOf(notificationObject("progress"))
Garbage == Text("malformed", EmptyObject)
NullText == Text("null", EmptyObject)
Scalar == Text("scalar", EmptyObject)
Resp(id) == TextOf(successObject(id, 1))
Err(id) == TextOf(errorObject(id, "object"))
Req(id) == TextOf(requestObject(id, "programmer_erase_done"))
WrongVersion(id) == Text("object", JsonObject("1.0", id, "absent", TRUE, 1, "absent"))
NoMembers(id) == Text("object", JsonObject("2.0", id, "absent", FALSE, Undefined, "falsy"))

Flood(n) == [k \in 1..n |-> Filler]

\* What the server sends in a run: the response to call 1 followed by enough
\* notifications to push it out of the buffer; the same the other way round;
\* undecodable, foreign and id-less messages around an error, a response and
\* a request carrying id 1.
Scripts ==
  { <<Resp(1)>> \o Flood(BufferCap + 1),
    Flood(BufferCap + 1) \o <<Resp(1)>>,
    <<Garbage, NullText, WrongVersion(1), Err(Null), Resp(2), Filler, Err(1), Resp(1)>>,
    <<Scalar, NoMembers(1), Garbage, Err(Null), Resp(2), Filler, Req(1), Resp(1)>> }

\* Ids no RPCCall of the run returns.
UnsentIds == {3}

\* getRPCResponse(id) called for an id that no RPCCall returned.
AwaitUnsent(id) ==
  /\ Len(tasks) = 1
  /\ tasks[1].pc \in {"returned", "threw"}
  /\ tasks' = Append(tasks, [Task("none", "wait", 0) EXCEPT !.id = id])
  /\ UNCHANGED <<chanVars, devVars, faults, budget, sent, resolved, fails, callerVars,
                 xferVars, pure, replay, cache, sockets, progress, script, delivered, codec>>

\* The next text of the script arrives on the open socket: 'message' listener.
Inbound ==
  /\ delivered < Len(script)
  /\ ws = "open"
  /\ delivered' = delivered + 1
  /\ receiveBuffer' = onMessageEvent(receiveBuffer, script[delivered + 1])
  /\ UNCHANGED <<ws, rpcId, devVars, faults, budget, sent, resolved, fails, callerVars,
                 xferVars, pure, replay, cache, sockets, tasks, progress, script, codec>>

InitPoll ==
  /\ InitCommon
  /\ devRead = 2
  /\ honest = TRUE
  /\ budget = 0
  /\ stage = "end"
  /\ pure = PureIdle
  /\ codec = CodecIdle
  /\ script \in Scripts

\* One getRPCResponse at a time.
PollStep ==
  \E t \in 1..Len(tasks) : PollFound(t) \/ PollSleep(t) \/ PollExpire(t)

NextPoll ==
  \/ tasks = <<>> /\ DetectClick
  \/ \E s \in 1..Len(sockets) : SocketOpen(s)
  \/ Inbound
  \/ \E t \in 1..Len(tasks) : PollFound(t)
  \/ \E t \in 1..Len(tasks) : PollSleep(t)
  \/ \E t \in 1..Len(tasks) : PollExpire(t)

SpecPoll == InitPoll /\ [][NextPoll]_vars

\* The same with a second getRPCResponse, for an id that was never sent, once
\* the first has completed; the timer of a pending getRPCResponse always fires.
LiveScripts ==
  { <<Resp(1)>> \o Flood(BufferCap + 1),
    <<Garbage, NullText, WrongVersion(1), Err(Null), Resp(2), Filler, Err(1), Resp(1)>> }

InitPollLive ==
  /\ InitPoll
  /\ script \in LiveScripts

NextPollLive ==
  \/ tasks = <<>> /\ DetectClick
  \/ \E s \in 1..Len(sockets) : SocketOpen(s)
  \/ \E id \in UnsentIds : AwaitUnsent(id)
  \/ Inbound
  \/ \E t \in 1..Len(tasks) : PollFound(t)
  \/ \E t \in 1..Len(tasks) : PollSleep(t)
  \/ \E t \in 1..Len(tasks) : PollExpire(t)

SpecPollLive == InitPollLive /\ [][NextPollLive]_vars /\ WF_vars(PollStep)

\* ------------------------------------- writeChipBlocks and its verify flag

\* How one attempt of a block ends: RPCCall or getRPCResponse throws
\* ("throw": connection failure, error response, timeout), or getRPCResponse
\* returns a success envelope whose result is the checksum that was sent
\* ("ack") or some other value ("other").
Outcomes == {"throw", "ack", "other"}

\* Mutant: with verify set, an acknowledgment that does not carry the checksum
\* sent counts as a failed attempt.
attemptWrittenVerified(verify, outcome) ==
  outcome = "ack" \/ (outcome = "other" /\ ~ verify)

\* written = true is reached when neither await of the try block threw.
attemptWritten(verify, outcome) == outcome # "throw"

\* The block loop of writeChipBlocks from block blockId on, after tried
\* attempts of it, against the outcomes of the attempts still to come: the
\* calls made, the indices yielded and how the generator ends ("running"
\* while the device has not answered).
RECURSIVE writeBlocksFrom(_, _, _, _, _)
writeBlocksFrom(verify, outcomes, blockId, tried, run) ==
  IF ~ (blockId < Len(fileData) \div BLOCK_SIZE)
  THEN [run EXCEPT !.result = "done"]
  ELSE IF ~ (tried < MaxAttempts)
  THEN [run EXCEPT !.result = "failed"]
  ELSE IF outcomes = <<>>
  THEN run
  ELSE LET called == [run EXCEPT !.calls =
                        Append(@, WriteBlockReq(blockId, BLOCK_SIZE, pageSize))]
       IN IF attemptWritten(verify, Head(outcomes))
          THEN writeBlocksFrom(verify, Tail(outcomes), blockId + 1, 0,
                               [called EXCEPT !.yields = Append(@, blockId)])
          ELSE writeBlocksFrom(verify, Tail(outcomes), blockId, tried + 1, called)

\* for await (const blockId of writeChipBlocks(chipName, fileData, verify)),
\* once the size query has been answered and the chip found.
WriteReplay(verify) ==
  /\ replay.step = "ready"
  /\ verify \notin DOMAIN replay.runs
  /\ replay' = [replay EXCEPT !.runs =
                  (verify :> writeBlocksFrom(verify, replay.outcomes, 0, 0,
                                             [calls |-> <<>>, yields |-> <<>>,
                                              result |-> "running"])) @@ @]
  /\ UNCHANGED <<chanVars, devVars, faults, budget, sent, resolved, fails, callerVars,
                 xferVars, pure, sockets, tasks, progress, script, delivered, codec,
                 cache>>

\* A buffer of whole blocks for a chip of the catalog, the block size the
\* device reported, and what the device does with each attempt.
InitVerify ==
  /\ ws = "open"
  /\ rpcId = 1
  /\ receiveBuffer = <<>>
  /\ wire = {}
  /\ flash = <<>>
  /\ \E d \in DeviceProfiles : devRead = d.read /\ devWrite = d.write
  /\ honest = FALSE
  /\ faults = 0
  /\ budget = 0
  /\ sent = <<>>
  /\ resolved = {}
  /\ fails = <<>>
  /\ stage = "end"
  /\ status = [write |-> "none", read |-> "none"]
  /\ error = [write |-> NoError, read |-> NoError]
  /\ yieldedW = <<>>
  /\ yieldedR = <<>>
  /\ op = "none"
  /\ pc = "idle"
  /\ phase = "block"
  /\ \E chip \in Catalog : chipName = chip.model /\ pageSize = chip.page_size
  /\ append_crc = TRUE
  /\ BLOCK_SIZE = devWrite
  /\ fileData \in { data \in SeqsUpTo(FileBytes, MaxFileLen) : Len(data) % devWrite = 0 }
  /\ i = 0
  /\ attempts = 0
  /\ blockData = <<>>
  /\ awaitId = 0
  /\ pure = PureIdle
  /\ sockets = <<>>
  /\ tasks = <<>>
  /\ progress = 0
  /\ script = <<>>
  /\ delivered = 0
  /\ codec = CodecIdle
  /\ \E outcomes \in SeqsUpTo(Outcomes, MaxOutcomes) :
       replay = [step |-> "ready", outcomes |-> outcomes, runs |-> <<>>]
  /\ cache = CacheIdle

NextVerify == \E verify \in BOOLEAN : WriteReplay(verify)

SpecVerify == InitVerify /\ [][NextVerify]_vars

\* ---------------------------------------------------- the chip catalog cache

\* getChipsData calls made on one page.
MaxLookups == 4

\* fetchJsonFile('webserver/knows_chips.json'): the object res.json() parsed
\* for fetch number k, or null when fetch or res.json() threw.
fetchJsonFile(k, ok) ==
  IF ok THEN [fetch |-> k, parts |-> "catalog"] ELSE NullChips

\* data || { parts: [] }: a new empty catalog in place of null.
orEmpty(data, k) ==
  IF data = NullChips THEN [fetch |-> k, parts |-> "empty"] ELSE data

\* getChipsData up to its await, or up to its return when the cache is set:
\* if (!cachedChips) { ... await fetchJsonFile(...) ... } return cachedChips
GetChipsData ==
  /\ Len(cache.calls) < MaxLookups
  /\ IF cache.cachedChips = NullChips
     THEN cache' = [cache EXCEPT
                      !.fetches = @ + 1,
                      !.calls = Append(@, [pc |-> "fetching", fetch |-> cache.fetches + 1,
                                           ret |-> NullChips])]
     ELSE cache' = [cache EXCEPT
                      !.calls = Append(@, [pc |-> "returned", fetch |-> 0,
                                           ret |-> cache.cachedChips])]
  /\ UNCHANGED <<chanVars, devVars, faults, budget, sent, resolved, fails, callerVars,
                 xferVars, pure, sockets, tasks, progress, script, delivered, codec,
                 replay>>

\* getChipsData after its await: cachedChips = data || { parts: [] };
\* return cachedChips
FetchDone(c, ok) ==
  /\ cache.calls[c].pc = "fetching"
  /\ LET data == fetchJsonFile(cache.calls[c].fetch, ok)
         value == orEmpty(data, cache.calls[c].fetch)
     IN cache' = [cache EXCEPT
                    !.cachedChips = value,
                    !.calls[c] = [pc |-> "returned", fetch |-> @.fetch, ret |-> value]]
  /\ UNCHANGED <<chanVars, devVars, faults, budget, sent, resolved, fails, callerVars,
                 xferVars, pure, sockets, tasks, progress, script, delivered, codec,
                 replay>>

InitCache ==
  /\ InitCommon
  /\ codec = CodecIdle
  /\ script = <<>>
  /\ honest = FALSE
  /\ budget = 0
  /\ stage = "end"
  /\ pure = PureIdle

NextCache ==
  \/ GetChipsData
  \/ \E c \in 1..Len(cache.calls), ok \in BOOLEAN : FetchDone(c, ok)

SpecCache == InitCache /\ [][NextCache]_vars

\* ------------------------------------------------------------------ claims

\* Positions in sent of the calls of one method for one block.
CallsFor(method, b) ==
  { k \in 1..Len(sent) : sent[k].method = method /\ sent[k].block_id = b }

BlockCalls(method) == { k \in 1..Len(sent) : sent[k].method = method }

RetriesError(b) == [kind |-> "retries", block |-> b]

\* The running generator's current attempt ends in this step.
AttemptEnds ==
  /\ pc \in {"wait", "rejected"}
  /\ pc' # pc \/ awaitId' # awaitId

\* C1 (state part): no block index ever gets more than 3 programmer_read_block
\* calls; a read that failed on block b failed after three failed attempts, with
\* an error naming b, with exactly the blocks 0..b-1 yielded and no call sent
\* for any block after b.
C1_State ==
  /\ \A k \in BlockCalls("programmer_read_block") :
       Cardinality(CallsFor("programmer_read_block", sent[k].block_id)) <= 3
  /\ status.read = "failed" /\ error.read.kind = "retries" =>
       /\ Len(fails) = 3
       /\ error.read.block = i
       /\ Len(yieldedR) = i
       /\ \A k \in BlockCalls("programmer_read_block") : sent[k].block_id <= i
       /\ op = "none"

\* C1 (step part): a third attempt that ends without a valid block makes the
\* read fail with the error naming the block; after the failure nothing more
\* is yielded and no programmer_read_block call is sent.
C1_Step ==
  /\ (op = "read" /\ phase = "block" /\ attempts = 3 /\ AttemptEnds
        /\ yieldedR' = yieldedR)
       => (status'.read = "failed" /\ error'.read = RetriesError(i))
  /\ status.read = "failed" =>
       /\ yieldedR' = yieldedR
       /\ status'.read = "failed"
       /\ \A k \in 1..Len(sent') :
            k > Len(sent) => sent'[k].method # "programmer_read_block"

\* C1: readChipBlocks issues at most 3 programmer_read_block calls per block;
\* when none of them gives a valid block the whole read fails with an error
\* naming that block, and afterwards no block is yielded and no call is sent.
C1_ReadRetryBudget == [](C1_State) /\ [][C1_Step]_vars

\* A read failed on block 1 after block 0 had been yielded.
C1_Witness ==
  /\ status.read = "failed"
  /\ error.read = RetriesError(1)
  /\ Len(yieldedR) = 1
  /\ Cardinality(CallsFor("programmer_read_block", 1)) = 3
\* Additive checksum, stated independently of the code's reduce.
RECURSIVE SumOf(_)
SumOf(bytes) ==
  IF bytes = <<>> THEN 0
  ELSE bytes[Len(bytes)] + SumOf(SubSeq(bytes, 1, Len(bytes) - 1))

Front(bytes) == SubSeq(bytes, 1, Len(bytes) - 1)

\* The last byte equals the sum of all preceding bytes modulo 256.
ChecksumOk(bytes) ==
  /\ Len(bytes) >= 1
  /\ bytes[Len(bytes)] = SumOf(Front(bytes)) % 256

\* This step is getRPCResponse returning a decodable non-error response to the
\* block loop (a timeout taken while the response is present counts as a fault).
BlockResponseReturned ==
  /\ phase = "block"
  /\ pc = "wait"
  /\ matching(awaitId) # {}
  /\ resolved' # resolved
  /\ faults' = faults
  /\ findResponse(awaitId).type # "error"
  /\ ~ atobThrows(findResponse(awaitId).str)

ReturnedBytes == atob(findResponse(awaitId).str)

\* C2 (state part): with append_crc, every failed attempt of a block, whatever
\* its cause, has used one of the 3 attempts, and a read fails on a block
\* after exactly 3 failed attempts (3 calls when all three were bad checksums).
C2_State ==
  /\ (op = "read" /\ phase = "block" /\ append_crc) =>
       /\ attempts \in 1..3
       /\ Len(fails) = attempts - 1
  /\ (status.read = "failed" /\ error.read.kind = "retries" /\ append_crc) =>
       /\ Len(fails) = 3
       /\ attempts = 3
       /\ (\A n \in 1..3 : fails[n] = "crc") =>
            Cardinality(CallsFor("programmer_read_block", i)) = 3

\* C2 (step part): a response with a valid checksum is yielded on whichever of
\* the 3 attempts it arrives, and the read goes on.
C2_Step ==
  (op = "read" /\ append_crc /\ BlockResponseReturned /\ ChecksumOk(ReturnedBytes))
    => /\ yieldedR' = Append(yieldedR, Front(ReturnedBytes))
       /\ status'.read \in {"running", "done"}

\* C2: in readChipBlocks with append_crc=true, connect failures, timeouts,
\* error responses and checksum mismatches share one budget of 3 attempts per
\* block: a valid third response after two failures is yielded, and three
\* responses with a wrong last byte fail the read after exactly 3 attempts.
C2_SharedBudget == [](C2_State) /\ [][C2_Step]_vars

\* The last block was yielded on its third attempt, after two failed attempts.
C2_Witness ==
  /\ status.read = "done"
  /\ append_crc
  /\ attempts = 3
  /\ Len(fails) = 2
  /\ Len(yieldedR) = i + 1

\* C3: block calls go out in increasing block order starting at 0, a call for
\* block b only once blocks 0..b-1 have been yielded, and every call but the
\* last one sent has been resolved (response, error or timeout) before the
\* next was sent; the last one, if unresolved, is the one being awaited.
C3_Sequential ==
  /\ \A k \in BlockCalls("programmer_read_block") :
       /\ sent[k].block_id >= 0
       /\ sent[k].block_id <= Len(yieldedR)
       /\ \A j \in BlockCalls("programmer_read_block") :
            j < k => sent[j].block_id <= sent[k].block_id
  /\ \A k \in BlockCalls("programmer_write_block") :
       /\ sent[k].block_id >= 0
       /\ sent[k].block_id <= Len(yieldedW)
       /\ \A j \in BlockCalls("programmer_write_block") :
            j < k => sent[j].block_id <= sent[k].block_id
  /\ \A k \in 1..Len(sent) : k < Len(sent) => sent[k].id \in resolved
  /\ (Len(sent) > 0 /\ sent[Len(sent)].id \notin resolved) =>
       (pc = "wait" /\ awaitId = sent[Len(sent)].id)

\* Block 1 is being written after block 0 needed a retry.
C3_Witness ==
  /\ Cardinality(CallsFor("programmer_write_block", 0)) >= 2
  /\ CallsFor("programmer_write_block", 1) # {}
  /\ pc = "wait"

\* C4 (step): a decoded response is accepted exactly when append_crc is off or
\* its last byte is the sum of the preceding bytes modulo 256; what is yielded
\* is the response without its last byte, or the whole response when
\* append_crc is off; a rejected response yields nothing.
C4_Step ==
  (op = "read" /\ BlockResponseReturned) =>
    IF append_crc => ChecksumOk(ReturnedBytes)
    THEN yieldedR' = Append(yieldedR, IF append_crc THEN Front(ReturnedBytes)
                                      ELSE ReturnedBytes)
    ELSE yieldedR' = yieldedR

\* C4: readChipBlocks accepts a response iff its checksum byte matches (always
\* when append_crc is false) and yields it with the checksum byte removed
\* (unchanged when append_crc is false).
C4_AcceptIffChecksum == [][C4_Step]_vars

\* Block 0 was accepted and stripped, then a response for block 1 was rejected.
C4_Witness ==
  /\ append_crc
  /\ yieldedR = << <<255, 255>> >>
  /\ i = 1
  /\ fails = <<"crc">>
  /\ ~ ChecksumOk(blockData)
\* C5 as stated: when the length error is raised no request of any method has
\* been sent.
C5_NoRequestBeforeLengthError ==
  (status.write = "failed" /\ error.write.kind = "length") => sent = <<>>

\* C5 (amended): a buffer whose length is not a multiple of the block size the
\* device returned makes writeChipBlocks fail with the length error; the only
\* request sent by then is the get_write_block_size query, no
\* programmer_write_block call is ever sent and nothing is yielded.
C5_LengthErrorAfterSizeQuery ==
  /\ (status.write # "none" /\ BLOCK_SIZE > 0 /\ Len(fileData) % BLOCK_SIZE # 0) =>
       /\ status.write = "failed"
       /\ error.write.kind = "length"
  /\ (status.write = "failed" /\ error.write.kind = "length") =>
       /\ Len(fileData) % BLOCK_SIZE # 0
       /\ Len(sent) = 1
       /\ sent[1].method = "get_write_block_size"
       /\ sent[1].id \in resolved
       /\ yieldedW = <<>>
       /\ op = "none"

\* A 1-byte buffer against a block size of 2 was rejected.
C5_Witness ==
  /\ status.write = "failed"
  /\ error.write.kind = "length"
  /\ Len(fileData) = 1
  /\ BLOCK_SIZE = 2

\* C6 (state part): no block gets more than 3 programmer_write_block calls; a
\* write that failed on block b did so after three failed attempts, naming b,
\* and no call for a block after b was sent.
C6_State ==
  /\ \A k \in BlockCalls("programmer_write_block") :
       Cardinality(CallsFor("programmer_write_block", sent[k].block_id)) <= 3
  /\ (status.write = "failed" /\ error.write.kind = "retries") =>
       /\ Len(fails) = 3
       /\ error.write.block = i
       /\ Len(yieldedW) = i
       /\ \A k \in BlockCalls("programmer_write_block") : sent[k].block_id <= i
       /\ op = "none"

\* C6 (step part): a failed attempt is followed by the next attempt for the
\* same block while fewer than 3 were made, and by the failure naming the block
\* after the third; once failed, no programmer_write_block call is sent.
C6_Step ==
  /\ (op = "write" /\ phase = "block" /\ AttemptEnds /\ yieldedW' = yieldedW) =>
       IF attempts < 3
       THEN /\ status'.write = "running"
            /\ i' = i
            /\ attempts' = attempts + 1
            /\ pc' \in {"wait", "connecting"}
       ELSE /\ status'.write = "failed"
            /\ error'.write = RetriesError(i)
  /\ status.write = "failed" =>
       /\ yieldedW' = yieldedW
       /\ status'.write = "failed"
       /\ \A k \in 1..Len(sent') :
            k > Len(sent) => sent'[k].method # "programmer_write_block"

\* C6: writeChipBlocks makes at most 3 programmer_write_block calls per block,
\* catches each failed attempt and tries again, and after the third failure for
\* block i fails naming i without ever calling for a later block.
C6_WriteRetryBudget == [](C6_State) /\ [][C6_Step]_vars

\* A write failed on block 1 after block 0 had been written.
C6_Witness ==
  /\ status.write = "failed"
  /\ error.write = RetriesError(1)
  /\ yieldedW = <<0>>
  /\ Len(fails) = 3

\* C7: every yielded index k-1 sits at position k (so each index is yielded
\* once, in increasing order), and some programmer_write_block call for it has
\* a non-error response with that call's id in the buffer; a completed write
\* has yielded exactly 0..n-1 with n = buffer length / write block size.
C7_YieldAfterAck ==
  /\ \A k \in 1..Len(yieldedW) :
       /\ yieldedW[k] = k - 1
       /\ \E c \in CallsFor("programmer_write_block", k - 1) :
            \E e \in 1..Len(receiveBuffer) :
              /\ receiveBuffer[e].id = sent[c].id
              /\ receiveBuffer[e].type \in {"success", "request"}
  /\ status.write = "done" =>
       /\ BLOCK_SIZE > 0
       /\ Len(fileData) % BLOCK_SIZE = 0
       /\ Len(yieldedW) = Len(fileData) \div BLOCK_SIZE

\* A two-block write completed although some attempt had failed.
C7_Witness ==
  /\ status.write = "done"
  /\ yieldedW = <<0, 1>>
  /\ Cardinality(BlockCalls("programmer_write_block")) >= 3

\* C8: every programmer_write_block call carries a block id within the file,
\* the page size of the chip's catalog entry, the base64 of exactly the bytes
\* [block_id*blockSize, (block_id+1)*blockSize) of the buffer and the sum of
\* those bytes modulo 256; the call being awaited is for the current block, and
\* all calls for one block carry the same data and crc.
C8_WriteCallContents ==
  /\ \A k \in BlockCalls("programmer_write_block") :
       LET c == sent[k]
           bytes == SubSeq(fileData, c.block_id * BLOCK_SIZE + 1,
                           (c.block_id + 1) * BLOCK_SIZE)
       IN /\ c.block_id \in 0..(Len(fileData) \div BLOCK_SIZE - 1)
          /\ Len(bytes) = BLOCK_SIZE
          /\ \E chip \in Catalog :
               chip.model = chipName /\ c.chip_page_size = chip.page_size
          /\ ~ atobThrows(c.data)
          /\ atob(c.data) = bytes
          /\ c.crc = SumOf(bytes) % 256
          /\ \A j \in CallsFor("programmer_write_block", c.block_id) :
               sent[j].data = c.data /\ sent[j].crc = c.crc
  /\ (op = "write" /\ phase = "block" /\ pc = "wait") =>
       /\ sent[Len(sent)].method = "programmer_write_block"
       /\ sent[Len(sent)].block_id = i

\* A block whose bytes sum to 256 was sent twice, with crc 0.
C8_Witness ==
  \E k \in BlockCalls("programmer_write_block") :
    /\ sent[k].crc = 0
    /\ atob(sent[k].data) = <<1, 255>>
    /\ Cardinality(CallsFor("programmer_write_block", sent[k].block_id)) = 2

RECURSIVE Concat(_)
Concat(blocks) ==
  IF blocks = <<>> THEN <<>> ELSE Head(blocks) \o Concat(Tail(blocks))

\* C9: after a completed write of the buffer, against a device that stores each
\* block at its id and returns it with a correct checksum, every block the
\* read yields within the buffer's range is the corresponding block of the
\* buffer, and the first n yielded blocks of a completed read concatenate to
\* the buffer (n = buffer length / write block size).
C9_RoundTrip ==
  status.write = "done" =>
    LET n == Len(fileData) \div devWrite
    IN /\ \A k \in 1..Len(yieldedR) :
            k <= n => yieldedR[k] = SubSeq(fileData, (k - 1) * devWrite + 1, k * devWrite)
       /\ (status.read = "done" /\ n <= Len(yieldedR)) =>
            Concat(SubSeq(yieldedR, 1, n)) = fileData

\* A two-block buffer was written and read back in a run with a failure.
C9_Witness ==
  /\ status.write = "done"
  /\ status.read = "done"
  /\ fileData = <<1, 255>>
  /\ devWrite = 1
  /\ Len(yieldedR) = 2
  /\ append_crc
  /\ faults = 1

\* C10: the write-path checksum is a byte equal to the sum of the payload
\* modulo 256, and the payload with that byte appended passes the read-path
\* validation, which returns the payload.
C10_ChecksumRoundTrip ==
  /\ pure.step \in {"crc", "frame", "checked"} =>
       /\ pure.crc \in 0..255
       /\ pure.crc = SumOf(pure.payload) % 256
  /\ pure.step = "checked" =>
       /\ pure.accepted
       /\ pure.out = pure.payload

\* A payload whose sum exceeds 255 went through both paths.
C10_Witness ==
  /\ pure.step = "checked"
  /\ pure.payload = <<255, 128, 255>>
  /\ pure.crc = 126

\* C20: every object built by requestObject, notificationObject, successObject
\* or errorObject carries jsonrpc = "2.0", also after serialization; and an
\* inbound object whose jsonrpc member is absent or not "2.0" deserializes to
\* an InvalidRequestError, which has no payload and so matches no call id.
C20_VersionTag ==
  /\ (codec.step \in {"built", "decoded"} /\ codec.kind # "inbound") =>
       /\ codec.obj.jsonrpc = "2.0"
       /\ codec.msg.kind = "object"
       /\ codec.msg.obj.jsonrpc = "2.0"
  /\ (codec.step \in {"decoded", "threw"} /\ codec.msg.kind = "object"
        /\ codec.msg.obj.jsonrpc # "2.0") =>
       /\ codec.step = "decoded"
       /\ codec.env.type = "InvalidRequestError"
       /\ ~ hasPayload(codec.env)

\* An object that would be a success response for call 1 was rejected for
\* its version tag "1.0".
C20_Witness ==
  /\ codec.step = "decoded"
  /\ codec.kind = "inbound"
  /\ codec.msg.kind = "object"
  /\ codec.msg.obj.jsonrpc = "1.0"
  /\ codec.msg.obj.id = 1
  /\ codec.msg.obj.hasResult
  /\ codec.env.type = "InvalidRequestError"

\* C18 as stated: a transfer for a chip name that is not in the catalog has
\* sent no request when it fails, and sends none before.
C18_UnknownChipNoRequest ==
  findChip(chipName) = {} => sent = <<>>

\* C19 (state part): while block i is being read exactly the blocks 0..i-1
\* have been yielded, and a completed read of a chip whose capacity is a
\* multiple of the read block size has yielded capacity / blockSize blocks.
C19_State ==
  /\ (op = "read" /\ phase = "block") => Len(yieldedR) = i
  /\ status.read = "done" =>
       \A chip \in findChip(chipName) :
         (BLOCK_SIZE > 0 /\ chip.capacity % BLOCK_SIZE = 0) =>
           /\ Len(yieldedR) = chip.capacity \div BLOCK_SIZE
           /\ Len(yieldedR) * BLOCK_SIZE = chip.capacity

\* C19 (step part): a block is yielded only when a block response has been
\* returned, and with append_crc it is one byte shorter than that response.
C19_Step ==
  yieldedR' # yieldedR =>
    /\ op = "read"
    /\ BlockResponseReturned
    /\ Len(yieldedR') = Len(yieldedR) + 1
    /\ Len(yieldedR'[Len(yieldedR')]) =
         IF append_crc THEN Len(ReturnedBytes) - 1 ELSE Len(ReturnedBytes)

\* C19: a readChipBlocks run in which every block succeeds yields exactly
\* capacity / readBlockSize blocks, one per index, and with append_crc=true
\* each yielded block is one byte shorter than the device's response.
C19_ReadBlockCount == [](C19_State) /\ [][C19_Step]_vars

\* A chip of capacity 4 was read in 2 blocks of size 2, each yielded with its
\* checksum byte removed.
C19_Witness ==
  /\ status.read = "done"
  /\ append_crc
  /\ BLOCK_SIZE = 2
  /\ Len(yieldedR) = 2
  /\ Len(blockData) = Len(yieldedR[2]) + 1

\* Call chains whose RPCCall has returned an id.
Called == { t \in 1..Len(tasks) : tasks[t].id # 0 }

\* C14: the ids handed to ws.send are strictly increasing in send order, so no
\* id is sent twice, none exceeds the counter, and no two call chains got the
\* same id from RPCCall, whether they sent at once, after suspending in
\* connectToWS, or after a reconnect.
C14_UniqueIds ==
  /\ \A j \in 1..Len(sent) : \A k \in 1..Len(sent) :
       j < k => sent[j].id < sent[k].id
  /\ \A k \in 1..Len(sent) : sent[k].id \in 1..rpcId
  /\ \A t \in Called : \A u \in Called : t # u => tasks[t].id # tasks[u].id
  /\ \A t \in Called : \E k \in 1..Len(sent) :
       sent[k].id = tasks[t].id /\ sent[k].method = tasks[t].method

\* The two calls of an erase click both suspended in connectToWS and were
\* sent in the reverse of their start order.
C14_Witness ==
  /\ Len(tasks) = 2
  /\ Len(sockets) = 2
  /\ tasks[1].method = "programmer_start_erase_chip"
  /\ tasks[1].id = 2
  /\ tasks[2].id = 1

\* C15: a getRPCResponse that returned holds an envelope with a payload whose
\* id is its own call's id, and one that failed on an error response did so on
\* an error envelope with its own id, whatever the order of the envelopes in
\* the buffer.
C15_OwnEnvelope ==
  \A t \in 1..Len(tasks) :
    /\ tasks[t].pc = "returned" =>
         /\ hasPayload(tasks[t].result)
         /\ tasks[t].result.id = tasks[t].id
         /\ \E k \in 1..Len(receiveBuffer) : receiveBuffer[k] = tasks[t].result
         /\ \A u \in 1..Len(tasks) : u # t => tasks[t].result.id # tasks[u].id
    /\ (tasks[t].pc = "threw" /\ tasks[t].err = "rpc") =>
         \E k \in 1..Len(receiveBuffer) :
           receiveBuffer[k].type = "error" /\ receiveBuffer[k].id = tasks[t].id

\* Two calls were outstanding together, the response to the second arrived
\* first, and each got its own.
C15_Witness ==
  /\ Len(tasks) = 2
  /\ tasks[1].pc = "returned"
  /\ tasks[2].pc = "returned"
  /\ Len(receiveBuffer) = 2
  /\ receiveBuffer[1].id = tasks[2].id
  /\ receiveBuffer[2].id = tasks[1].id
  /\ tasks[1].result = receiveBuffer[2]
  /\ tasks[2].result = receiveBuffer[1]

\* C16 as stated: at most one socket is connecting or open.
C16_OneActiveChannel ==
  Cardinality({ s \in 1..Len(sockets) : sockets[s] \in {"connecting", "open"} }) <= 1

\* C17 as stated: the progress bar is at 100% only after a
\* programmer_erase_done query has returned true.
C17_DoneBeforeFullProgress ==
  progress = 100 =>
    \E t \in 1..Len(tasks) :
      /\ tasks[t].method = "programmer_erase_done"
      /\ tasks[t].pc = "returned"
      /\ tasks[t].result.num = 1

\* Positions of the envelopes that have a payload whose id is id.
WithId(id) ==
  { k \in 1..Len(receiveBuffer) :
      /\ receiveBuffer[k].type \in {"request", "notification", "success", "error"}
      /\ receiveBuffer[k].id = id }

FirstWithId(id) == receiveBuffer[CHOOSE k \in WithId(id) : \A m \in WithId(id) : k <= m]

\* C11 (state part): what a getRPCResponse returned is an envelope with a
\* payload carrying the id it was called with, and not an error envelope.
C11_State ==
  \A t \in 1..Len(tasks) :
    tasks[t].pc = "returned" =>
      /\ tasks[t].result.type \in {"request", "success"}
      /\ tasks[t].result.id = tasks[t].id
      /\ tasks[t].id \notin {Null, Undefined}

\* C11 (step part): a getRPCResponse that completes other than by timeout does
\* so on the first envelope in the buffer whose payload id is its id: it
\* fails with an RPC error if that envelope is an error, and returns that
\* very envelope otherwise.
C11_Step ==
  \A t \in 1..Len(tasks) :
    (tasks[t].pc = "wait" /\ tasks'[t].pc # "wait" /\ tasks'[t].err # "timeout") =>
      /\ WithId(tasks[t].id) # {}
      /\ IF FirstWithId(tasks[t].id).type = "error"
         THEN tasks'[t].pc = "threw" /\ tasks'[t].err = "rpc"
         ELSE tasks'[t].pc = "returned" /\ tasks'[t].result = FirstWithId(tasks[t].id)

\* C11: getRPCResponse(id) completes, other than by timeout, only on an
\* envelope in the buffer whose payload id is id, failing if it is an error
\* envelope and returning it otherwise; messages without a payload or with
\* another or a null id are never returned.
C11_MatchById == [](C11_State) /\ [][C11_Step]_vars

\* The call with id 1 returned the seventh buffer entry, after two
\* InvalidRequestErrors, a ParseError, an error with id null, a response with
\* id 2 and a notification.
C11_Witness ==
  /\ Len(tasks) >= 1
  /\ tasks[1].pc = "returned"
  /\ tasks[1].id = 1
  /\ Len(receiveBuffer) >= 7
  /\ tasks[1].result = receiveBuffer[7]
  /\ receiveBuffer[1].type = "InvalidRequestError"
  /\ receiveBuffer[3].type = "ParseError"
  /\ receiveBuffer[4].type = "error"
  /\ receiveBuffer[4].id = Null
  /\ receiveBuffer[5].id = 2

\* No envelope for the id of call chain t is in the buffer and the server
\* will send none: the id was never sent, or its response has been evicted.
Lost(t) ==
  /\ t <= Len(tasks)
  /\ tasks[t].pc = "wait"
  /\ WithId(tasks[t].id) = {}
  /\ \A k \in (delivered + 1)..Len(script) :
       \/ deserializeThrows(script[k])
       \/ deserialize(script[k]).id # tasks[t].id

TimedOut(t) ==
  /\ t <= Len(tasks)
  /\ tasks[t].pc = "threw"
  /\ tasks[t].err = "timeout"

\* C12 (state part): a getRPCResponse for an id that was never sent has not
\* returned and has not failed on an RPC error.
C12_State ==
  \A t \in 1..Len(tasks) :
    (\A k \in 1..Len(sent) : sent[k].id # tasks[t].id) =>
      /\ tasks[t].pc # "returned"
      /\ tasks[t].err \in {"none", "timeout"}

\* C12 (step part): a wait whose envelope is lost goes on waiting or times
\* out; and the timeout is thrown at the first test of the loop condition at
\* or after 40 s, less than one polling interval late.
C12_Step ==
  \A t \in 1..Len(tasks) :
    /\ Lost(t) => (tasks'[t].pc = "wait" \/ tasks'[t].err = "timeout")
    /\ (tasks[t].pc = "wait" /\ tasks'[t].err = "timeout") =>
         /\ tasks[t].elapsed >= TimeoutMs
         /\ tasks[t].elapsed < TimeoutMs + PollMs

\* C12: getRPCResponse(id) for an id that was never sent, or whose response
\* left the buffer before a poll saw it, never returns an envelope and fails
\* with a timeout, thrown once 40 s have elapsed and within one 100 ms
\* polling interval of that.
C12_LostTimesOut ==
  /\ [](C12_State)
  /\ [][C12_Step]_vars
  /\ \A t \in {1, 2} : Lost(t) ~> TimedOut(t)

\* The response to call 1 came first and 64 more messages pushed it out; 400
\* polls have found nothing and the loop condition is about to fail.
C12_Witness ==
  /\ script[1] = Resp(1)
  /\ delivered >= BufferCap + 1
  /\ Lost(1)
  /\ tasks[1].id = 1
  /\ tasks[1].elapsed = TimeoutMs

\* C13 as stated: the buffer holds the decoded forms of the last 64 inbound
\* messages (all of them while fewer have arrived), in arrival order.
C13_LastMessagesKept ==
  /\ Len(receiveBuffer) <= BufferCap
  /\ Len(receiveBuffer) = IF delivered < BufferCap THEN delivered ELSE BufferCap
  /\ \A k \in 1..Len(receiveBuffer) :
       LET msg == script[delivered - Len(receiveBuffer) + k]
       IN /\ ~ deserializeThrows(msg)
          /\ receiveBuffer[k] = deserialize(msg)

\* The inbound messages whose deserialization does not throw.
Appended ==
  SelectSeq(SubSeq(script, 1, delivered), LAMBDA msg : ~ deserializeThrows(msg))

\* The buffer holds the last 64 of the messages that were appended.
BufferHoldsLastAppended ==
  /\ Len(receiveBuffer) <= BufferCap
  /\ Len(receiveBuffer) = IF Len(Appended) < BufferCap THEN Len(Appended) ELSE BufferCap
  /\ \A k \in 1..Len(receiveBuffer) :
       receiveBuffer[k] = deserialize(Appended[Len(Appended) - Len(receiveBuffer) + k])

\* C21 as stated: deserialize maps every inbound text to one outcome: a
\* ParseError for malformed text, an InvalidRequestError for a value that is
\* not a conforming object, and for an object tagged "2.0" that carries an
\* error member and neither method nor result, an error envelope, also when
\* its id is null or absent.
C21_OneOutcomePerText ==
  (codec.step \in {"decoded", "threw"} /\ codec.kind = "inbound") =>
    /\ codec.step = "decoded"
    /\ codec.msg.kind = "malformed" => codec.env.type = "ParseError"
    /\ codec.msg.kind = "scalar" => codec.env.type = "InvalidRequestError"
    /\ (codec.msg.kind = "object" /\ codec.msg.obj.jsonrpc # "2.0") =>
         codec.env.type = "InvalidRequestError"
    /\ (codec.msg.kind = "object" /\ codec.msg.obj.jsonrpc = "2.0"
          /\ codec.msg.obj.error = "object" /\ codec.msg.obj.method = "absent"
          /\ ~ codec.msg.obj.hasResult) =>
         codec.env.type = "error"

\* An id the JSON-RPC envelope may carry: a string or a whole number.
ValidId(id) == id.type = "string" \/ (id.type = "number" /\ id.v \in {"0", "1"})

\* C22: jsonrpc.request returns the serialized request envelope exactly when
\* id is a string or a whole number and method is a string; otherwise it
\* returns a non-empty list of messages, having called the error hook with
\* that list when a hook is set; the hook is not called on success.
C22_RequestIffValid ==
  (codec.step = "constructed" /\ codec.kind = "request") =>
    /\ codec.out.ok <=> (ValidId(codec.id) /\ codec.method.type = "string")
    /\ codec.out.ok =>
         /\ codec.out.errors = <<>>
         /\ codec.hooked = <<>>
         /\ codec.out.obj.jsonrpc = "2.0"
         /\ codec.out.obj.id = codec.id
         /\ codec.out.obj.method = codec.method
    /\ ~ codec.out.ok =>
         /\ codec.out.errors # <<>>
         /\ codec.hooked = IF codec.handler THEN <<codec.out.errors>> ELSE <<>>

\* A request with the fractional id 1.5 and a numeric method was refused with
\* two messages, which the hook received.
C22_Witness ==
  /\ codec.step = "constructed"
  /\ codec.kind = "request"
  /\ codec.id = JsValue("number", "1.5")
  /\ codec.method = JsValue("number", "1")
  /\ codec.handler
  /\ ~ codec.out.ok
  /\ codec.out.errors = <<"id", "method">>
  /\ codec.hooked = <<codec.out.errors>>

\* C23 as stated: a request built with a scalar params value carries params
\* as the one-element array holding that value; object and array params are
\* carried unchanged.
C23_ScalarParamsWrapped ==
  (codec.step = "constructed" /\ codec.kind = "request" /\ codec.out.ok) =>
    /\ codec.params \in JsScalars =>
         /\ codec.out.obj.hasParams
         /\ codec.out.obj.params = JsArray(<<codec.params>>)
    /\ (codec.params.type = "object" /\ codec.params # JsNull) =>
         /\ codec.out.obj.hasParams
         /\ codec.out.obj.params = codec.params

\* C24 as stated: jsonrpc.error returns the serialized error envelope only for
\* an errdata that is an instance of JsonRpcError with a whole-number code and
\* a string message.
C24_ErrorOnlyIfWellFormed ==
  (codec.step = "constructed" /\ codec.kind = "error" /\ codec.out.ok) =>
    /\ codec.errdata.type = "object"
    /\ codec.errdata.instance
    /\ codec.errdata.code = "int"
    /\ codec.errdata.message = "string"

\* C25 as stated: whenever RPCCall has called ws.send, the socket ws referred
\* to was open at that moment.
C25_SendOnOpenChannel ==
  \A t \in 1..Len(tasks) : tasks[t].via \in {"none", "open"}

\* C27 as stated: a call chain does not stay suspended in connectToWS once
\* its socket has failed, and does not stay in getRPCResponse, nor end there
\* with a timeout, once the socket that carried its request has closed.
C27_ChannelFailureReachesCaller ==
  \A t \in 1..Len(tasks) :
    /\ tasks[t].pc = "connecting" => sockets[tasks[t].sock] # "closed"
    /\ (tasks[t].via = "open" /\ sockets[tasks[t].sock] = "closed") =>
         /\ tasks[t].pc # "wait"
         /\ ~ (tasks[t].pc = "threw" /\ tasks[t].err = "timeout")

\* C26 as stated: a transfer that failed after three attempts of one block,
\* each ended by a connection failure or a timeout, was rejected with the
\* error of its last attempt.
C26_LastErrorVerbatim ==
  \A o \in {"write", "read"} :
    (status[o] = "failed" /\ Len(fails) = MaxAttempts
       /\ \A k \in 1..Len(fails) : fails[k] \in {"connect", "timeout"}) =>
      error[o].kind = fails[Len(fails)]

\* C29 as stated: every programmer_write_block call carries as many bytes as
\* the device reported for writes, and every block readChipBlocks has yielded
\* has as many payload bytes (the checksum byte not counted) as the device
\* reported for reads.
C29_BlockLengths ==
  /\ \A k \in BlockCalls("programmer_write_block") :
       Len(atob(sent[k].data)) = devWrite
  /\ \A k \in 1..Len(yieldedR) : Len(yieldedR[k]) = devRead

\* The write half of C29 alone.
WriteBlocksSized ==
  \A k \in BlockCalls("programmer_write_block") :
    /\ BLOCK_SIZE = devWrite
    /\ Len(atob(sent[k].data)) = devWrite

\* C30: a write whose buffer length is not a multiple of the block size the
\* device returned sends no programmer_write_block call and yields nothing;
\* an empty buffer is not refused for its length, sends no
\* programmer_write_block call, yields nothing, and the write completes
\* (for a chip of the catalog).
C30_NoPartialWrite ==
  /\ ((status.write # "none" /\ BLOCK_SIZE > 0 /\ Len(fileData) % BLOCK_SIZE # 0)
        \/ (status.write = "failed" /\ error.write.kind = "length")) =>
       /\ BlockCalls("programmer_write_block") = {}
       /\ yieldedW = <<>>
  /\ (status.write # "none" /\ BLOCK_SIZE > 0 /\ fileData = <<>>) =>
       /\ error.write.kind # "length"
       /\ BlockCalls("programmer_write_block") = {}
       /\ yieldedW = <<>>
       /\ findChip(chipName) # {} => status.write = "done"

\* An empty buffer was written: one size query, then done.
C30_Witness ==
  /\ status.write = "done"
  /\ fileData = <<>>
  /\ BLOCK_SIZE > 0
  /\ Len(sent) = 1
  /\ sent[1].method = "get_write_block_size"
  /\ yieldedW = <<>>

\* The outcomes of the attempts a run has made.
Consumed(run) == SubSeq(replay.outcomes, 1, Len(run.calls))

C31_State ==
  /\ \A j \in 1..Len(sent) : \A k \in 1..Len(sent) : j < k => sent[j].id < sent[k].id
  /\ pc = "wait" =>
       /\ sent # <<>>
       /\ awaitId = sent[Len(sent)].id
       /\ awaitId \notin resolved
       /\ phase = "block" => sent[Len(sent)].block_id = i

\* C31 (step part): a block is yielded only on the envelope that carries the id
\* of the last call sent, which is a call for that block: the index yielded by
\* writeChipBlocks is that call's block id, and the bytes yielded by
\* readChipBlocks are decoded from that envelope, whatever other envelopes
\* (answers to earlier attempts or earlier blocks) the buffer holds.
C31_Step ==
  /\ yieldedW' # yieldedW =>
       /\ WithId(sent[Len(sent)].id) # {}
       /\ FirstWithId(sent[Len(sent)].id).type # "error"
       /\ yieldedW' = Append(yieldedW, sent[Len(sent)].block_id)
  /\ yieldedR' # yieldedR =>
       /\ WithId(sent[Len(sent)].id) # {}
       /\ FirstWithId(sent[Len(sent)].id).type # "error"
       /\ sent[Len(sent)].block_id = Len(yieldedR)
       /\ yieldedR' = Append(yieldedR,
                             readYield(atob(FirstWithId(sent[Len(sent)].id).str),
                                       append_crc))

\* C31: every attempt has a fresh call id, and a response to an earlier
\* attempt or to an earlier block is never taken as the response of the
\* current attempt.
C31_FreshIdPerAttempt == [](C31_State) /\ [][C31_Step]_vars

\* Block 0 was read twice; the answer to the first attempt, which had timed
\* out, arrived after the answer to the second, and the block was yielded.
C31_Witness ==
  /\ Len(yieldedR) >= 1
  /\ \E a \in CallsFor("programmer_read_block", 0) :
       \E b \in CallsFor("programmer_read_block", 0) :
         /\ a < b
         /\ \E j \in WithId(sent[a].id) : \E k \in WithId(sent[b].id) : k < j

\* Blocks of the transfer in hand: byteLength / BLOCK_SIZE for a write, the
\* indices below capacity / blockSize for a read.
C32_BlockCount(method) ==
  IF method = "programmer_write_block"
  THEN Len(fileData) \div BLOCK_SIZE
  ELSE Cardinality({ b \in 0..MaxCalls : findChip(chipName) # {} /\ readMore(b, BLOCK_SIZE) })

\* C32 (state part): no block is called more than 3 times; a transfer makes
\* at most 3 x blockCount block calls, where blockCount is the bytes to move
\* divided by the block size and so never more than the bytes to move; and a
\* transfer that ended has yielded every block or holds a failure.
C32_State ==
  /\ \A method \in {"programmer_write_block", "programmer_read_block"} :
       /\ \A b \in 0..MaxCalls : Cardinality(CallsFor(method, b)) <= MaxAttempts
       /\ BLOCK_SIZE > 0 =>
            Cardinality(BlockCalls(method)) <= MaxAttempts * C32_BlockCount(method)
  /\ Cardinality(BlockCalls("programmer_write_block")) <= MaxAttempts * Len(fileData)
  /\ \A chip \in findChip(chipName) :
       Cardinality(BlockCalls("programmer_read_block")) <= MaxAttempts * chip.capacity
  /\ status.write = "done" =>
       /\ Len(yieldedW) = C32_BlockCount("programmer_write_block")
       /\ \A k \in 1..Len(yieldedW) : yieldedW[k] = k - 1
  /\ status.read = "done" => Len(yieldedR) = C32_BlockCount("programmer_read_block")
  /\ \A x \in {"write", "read"} : status[x] = "failed" <=> error[x] # NoError

\* C32 (step part): a transfer that ended, failed or done, sends no further
\* call and yields no further block.
C32_Step ==
  \A x \in {"write", "read"} :
    status[x] \in {"failed", "done"} =>
      /\ status'[x] = status[x]
      /\ sent' = sent
      /\ yieldedW' = yieldedW
      /\ yieldedR' = yieldedR

\* C32 (progress part): a transfer that was started ends.
C32_Ends == (op # "none") ~> (op = "none")

\* C32: every read or write transfer ends, after at most 3 x blockCount block
\* calls, with every block yielded or with a fatal failure; no block is tried
\* a fourth time and nothing follows a failure.
C32_TransferTerminates == [](C32_State) /\ [][C32_Step]_vars /\ C32_Ends

\* The cache holds a catalog that a load brought.
C33_Loaded == cache.cachedChips.parts = "catalog"

\* C33: once a load has succeeded, the cached value is never replaced and no
\* further fetch of the catalog is made, also when several getChipsData calls
\* were started before the first load completed.
C33_LoadedOnce ==
  [][C33_Loaded => /\ cache'.cachedChips = cache.cachedChips
                   /\ cache'.fetches = cache.fetches]_vars

\* C34: once getRPCResponse(id) has returned the envelope for id, or thrown on
\* its error envelope, no envelope with that id is left in receiveBuffer (so a
\* second getRPCResponse(id) would find none and the slot is free).
C34_ConsumedOnce ==
  \A t \in 1..Len(tasks) :
    (tasks[t].pc = "returned" \/ (tasks[t].pc = "threw" /\ tasks[t].err = "rpc")) =>
      /\ WithId(tasks[t].id) = {}
      /\ matching(tasks[t].id) = {}
====
